---- MODULE Spec2Model ----
(***************************************************************************)
(* A model of the cluv timeline editor: the Segment algebra                *)
(* (src/src/ffcut/segment.rs), the EditSession and its validation          *)
(* (src/kiva-cut/src/cut/mod.rs, track.rs, material.rs), the protocol      *)
(* projection (src/src/edit/protocol.rs) and the graph compiler            *)
(* Editor::export (src/src/ffcut/editor.rs).                               *)
(*                                                                         *)
(* Times are integer milliseconds.  f32 volumes and opacities are counted  *)
(* in tenths (10 is 1.0).  An f64 playback speed is kept as the pair       *)
(* <<source duration, target duration>>; `(x as f64 * speed) as u32` is    *)
(* the truncated quotient, which is what the f64 arithmetic yields for     *)
(* every operand up to 10 (the first operands for which the f64 product    *)
(* falls below the exact quotient are 11 * (15 / 11)).                     *)
(***************************************************************************)
EXTENDS Integers, Sequences, FiniteSets, TLC

VARIABLES
    session,    \* the EditSession of the editor
    seg,        \* a Segment under edit
    call,       \* the last call made, its arguments and what it returned
    project     \* a project on disk: its protocol's materials and its files

vars == <<session, seg, call, project>>

\* Option<T>: None is the empty sequence, Some(x) the one-element sequence
None == <<>>
Some(x) == <<x>>
IsSome(o) == o # <<>>
Unwrap(o) == o[1]

(***************************************************************************)
(* Bounds of the model.                                                    *)
(***************************************************************************)
\* create_project: an empty materials section and an empty materials directory
NewProject ==
    [materials |-> [videos |-> <<>>, audios |-> <<>>, images |-> <<>>],
     files |-> {}, issued |-> 0]

MaxStart == 1
MaxDuration == 6

Starts == 0..MaxStart
Durations == 0..MaxDuration
Amounts == 0..(MaxDuration + 1)
Times == 0..(MaxStart + MaxDuration + 1)
\* the starts a run of trims may reach before the model stops following it
StartCap == MaxStart + MaxDuration

(***************************************************************************)
(* TimeRange and Segment (segment.rs)                                      *)
(***************************************************************************)
TimeRange(start, duration) == [start |-> start, duration |-> duration]

NewSegment(id, segment_type, material_id, target_timerange, source_timerange) ==
    [id |-> id, segment_type |-> segment_type, material_id |-> material_id,
     target_timerange |-> target_timerange, source_timerange |-> source_timerange,
     scale |-> None, position |-> None]

target_end_time(s) == s.target_timerange.start + s.target_timerange.duration

contains_time_inclusive(s, time) ==
    time >= s.target_timerange.start /\ time <= target_end_time(s)

contains_time(s, time) ==
    time >= s.target_timerange.start /\ time < target_end_time(s)

\* the f64 speed as the pair <<numerator, denominator>>
playback_speed(s) ==
    IF s.target_timerange.duration = 0
    THEN <<1, 1>>
    ELSE <<s.source_timerange.duration, s.target_timerange.duration>>

needs_speed_adjustment(s) ==
    s.source_timerange.duration # s.target_timerange.duration

\* (amount as f64 * speed) as u32: the product truncated to whole milliseconds
\* (playback_speed never returns a zero denominator)
ScaleBySpeed(amount, speed) == (amount * speed[1]) \div speed[2]

SegmentValidate(s) ==
    IF s.id = "" THEN "Segment ID cannot be empty"
    ELSE IF s.material_id = "" THEN "Material ID cannot be empty"
    ELSE IF s.target_timerange.duration = 0 THEN "Target duration must be positive"
    ELSE IF s.source_timerange.duration = 0 THEN "Source duration must be positive"
    ELSE IF IsSome(s.scale) /\ (Unwrap(s.scale).width <= 0 \/ Unwrap(s.scale).height <= 0)
         THEN "Scale dimensions must be positive"
    ELSE "ok"

move_to(s, new_start) == [s EXCEPT !.target_timerange.start = new_start]

resize(s, new_duration) == [s EXCEPT !.target_timerange.duration = new_duration]

\* the source window after a trim of source_trim (shared tail of both trims)
ShrinkSource(src, source_trim, move_start) ==
    [start |-> IF move_start THEN src.start + source_trim ELSE src.start,
     duration |-> IF source_trim < src.duration
                  THEN src.duration - source_trim
                  ELSE 1]

trim_start(s, trim_amount) ==
    IF trim_amount >= s.target_timerange.duration
    THEN [s EXCEPT !.target_timerange.duration = 1]
    ELSE LET s1 == [s EXCEPT !.target_timerange =
                        [start |-> s.target_timerange.start + trim_amount,
                         duration |-> s.target_timerange.duration - trim_amount]]
             \* the speed is read after the target window was shrunk
             source_trim == ScaleBySpeed(trim_amount, playback_speed(s1))
         IN [s1 EXCEPT !.source_timerange =
                 ShrinkSource(s.source_timerange, source_trim, TRUE)]

\* trim_end with its guard turned around (the u32 subtraction that would follow
\* cannot be taken, so the other branch leaves the segment alone)
trim_end_guard_inverted(s, trim_amount) ==
    IF trim_amount <= s.target_timerange.duration
    THEN [s EXCEPT !.target_timerange.duration = 1]
    ELSE s

trim_end(s, trim_amount) ==
    IF trim_amount >= s.target_timerange.duration
    THEN [s EXCEPT !.target_timerange.duration = 1]
    ELSE LET s1 == [s EXCEPT !.target_timerange.duration =
                        s.target_timerange.duration - trim_amount]
             source_trim == ScaleBySpeed(trim_amount, playback_speed(s1))
         IN [s1 EXCEPT !.source_timerange =
                 ShrinkSource(s.source_timerange, source_trim, FALSE)]

\* split_at that forgets to take the first part out of the second source window
split_at_second_untrimmed(s, time) ==
    IF ~contains_time(s, time)
    THEN [ok |-> FALSE, err |-> "InvalidParams"]
    ELSE LET offset == time - s.target_timerange.start
             source_offset == ScaleBySpeed(offset, playback_speed(s))
         IN [ok |-> TRUE,
             first |-> [s EXCEPT
                 !.id = s.id \o "_part1",
                 !.target_timerange =
                     [start |-> s.target_timerange.start, duration |-> offset],
                 !.source_timerange =
                     [start |-> s.source_timerange.start, duration |-> source_offset]],
             second |-> [s EXCEPT
                 !.id = s.id \o "_part2",
                 !.target_timerange =
                     [start |-> time, duration |-> s.target_timerange.duration - offset],
                 !.source_timerange =
                     [start |-> s.source_timerange.start + source_offset,
                      duration |-> s.source_timerange.duration]]]

split_at(s, time) ==
    IF ~contains_time(s, time)
    THEN [ok |-> FALSE, err |-> "InvalidParams"]
    ELSE LET offset == time - s.target_timerange.start
             first_duration == offset
             second_duration == s.target_timerange.duration - offset
             source_offset == ScaleBySpeed(offset, playback_speed(s))
         IN [ok |-> TRUE,
             first |-> [s EXCEPT
                 !.id = s.id \o "_part1",
                 !.target_timerange =
                     [start |-> s.target_timerange.start, duration |-> first_duration],
                 !.source_timerange =
                     [start |-> s.source_timerange.start, duration |-> source_offset]],
             second |-> [s EXCEPT
                 !.id = s.id \o "_part2",
                 !.target_timerange = [start |-> time, duration |-> second_duration],
                 !.source_timerange =
                     [start |-> s.source_timerange.start + source_offset,
                      duration |-> s.source_timerange.duration - source_offset]]]

(***************************************************************************)
(* Material (material.rs).  The three variants share one record shape; a   *)
(* field a variant does not have stays None (the dimension of an audio     *)
(* material stays 0 x 0 and is never read).                                *)
(***************************************************************************)
Dimension(width, height) == [width |-> width, height |-> height]

VideoMaterialNew(id, src, width, height) ==
    [type |-> "Video", id |-> id, src |-> src, dimension |-> Dimension(width, height),
     duration |-> None, fps |-> None, codec |-> None, bitrate |-> None,
     sample_rate |-> None, channels |-> None, format |-> None]

AudioMaterialNew(id, src) ==
    [type |-> "Audio", id |-> id, src |-> src, dimension |-> Dimension(0, 0),
     duration |-> None, fps |-> None, codec |-> None, bitrate |-> None,
     sample_rate |-> None, channels |-> None, format |-> None]

ImageMaterialNew(id, src, width, height) ==
    [type |-> "Image", id |-> id, src |-> src, dimension |-> Dimension(width, height),
     duration |-> None, fps |-> None, codec |-> None, bitrate |-> None,
     sample_rate |-> None, channels |-> None, format |-> None]

MaterialValidate(m) ==
    IF m.id = "" THEN "Material ID cannot be empty"
    ELSE IF m.src = "" THEN "Material source cannot be empty"
    ELSE CASE m.type = "Video" ->
                 IF m.dimension.width <= 0 THEN "Video width must be positive"
                 ELSE IF m.dimension.height <= 0 THEN "Video height must be positive"
                 ELSE IF IsSome(m.fps) /\ Unwrap(m.fps) <= 0
                      THEN "Video FPS must be positive"
                 ELSE "ok"
           [] m.type = "Audio" ->
                 IF IsSome(m.sample_rate) /\ Unwrap(m.sample_rate) = 0
                 THEN "Sample rate must be positive"
                 ELSE IF IsSome(m.channels) /\ Unwrap(m.channels) = 0
                      THEN "Channel count must be positive"
                 ELSE "ok"
           [] m.type = "Image" ->
                 IF m.dimension.width <= 0 THEN "Image width must be positive"
                 ELSE IF m.dimension.height <= 0 THEN "Image height must be positive"
                 ELSE "ok"

(***************************************************************************)
(* Track (track.rs)                                                        *)
(***************************************************************************)
NewTrack(id, track_type) ==
    [id |-> id, track_type |-> track_type, segments |-> <<>>,
     enabled |-> TRUE, muted |-> FALSE, volume |-> 10, opacity |-> 10,
     blend_mode |-> None]

add_segment(track, segment) ==
    [track EXCEPT !.segments = Append(track.segments, segment)]

TrackDuration(track) ==
    LET ends == {target_end_time(track.segments[i]) : i \in 1..Len(track.segments)}
    IN IF ends = {} THEN 0 ELSE CHOOSE e \in ends : \A f \in ends : f <= e

\* sort_by_key(|s| s.target_timerange.start): a stable sort, by insertion
RECURSIVE SortByStart(_)
SortByStart(segments) ==
    IF segments = <<>> THEN <<>>
    ELSE LET last == segments[Len(segments)]
             front == SortByStart(SubSeq(segments, 1, Len(segments) - 1))
             keep == SelectSeq(front, LAMBDA g :
                         g.target_timerange.start <= last.target_timerange.start)
             move == SelectSeq(front, LAMBDA g :
                         g.target_timerange.start > last.target_timerange.start)
         IN keep \o <<last>> \o move

has_overlapping_segments(track) ==
    IF Len(track.segments) < 2 THEN FALSE
    ELSE LET sorted_segments == SortByStart(track.segments)
         IN \E i \in 1..(Len(sorted_segments) - 1) :
               sorted_segments[i].target_timerange.start
                   + sorted_segments[i].target_timerange.duration
                 > sorted_segments[i + 1].target_timerange.start

\* the track's own fields, the first half of Track::validate
TrackOwnError(track) ==
    IF track.id = "" THEN "Track ID cannot be empty"
    ELSE IF ~(0 <= track.volume /\ track.volume <= 10)
         THEN "Volume must be between 0.0 and 1.0"
    ELSE IF ~(0 <= track.opacity /\ track.opacity <= 10)
         THEN "Opacity must be between 0.0 and 1.0"
    ELSE "ok"

\* index of the first element of 1..n that satisfies Bad, 0 if none does
FirstIndex(n, Bad(_)) ==
    IF \E i \in 1..n : Bad(i)
    THEN CHOOSE i \in 1..n : Bad(i) /\ \A j \in 1..(i - 1) : ~Bad(j)
    ELSE 0

\* what a validation returns: Ok, or the InvalidParams error with the place
\* that raised it (class: which check; track, index: where)
ValidOk == [class |-> "ok", track |-> 0, index |-> 0, msg |-> "ok"]
Invalid(class, track, index, msg) ==
    [class |-> class, track |-> track, index |-> index, msg |-> msg]

TrackValidate(track, t) ==
    IF TrackOwnError(track) # "ok"
    THEN Invalid("track", t, 0, TrackOwnError(track))
    ELSE LET bad == FirstIndex(Len(track.segments),
                        LAMBDA i : SegmentValidate(track.segments[i]) # "ok")
         IN IF bad # 0
            THEN Invalid("segment", t, bad, SegmentValidate(track.segments[bad]))
            ELSE ValidOk

(***************************************************************************)
(* EditSession (cut/mod.rs)                                                *)
(***************************************************************************)
Stage(width, height) == [width |-> width, height |-> height]

NewSession(stage) == [stage |-> stage, materials |-> <<>>, tracks |-> <<>>]

add_material(s, material) == [s EXCEPT !.materials = Append(s.materials, material)]

add_track(s, track) == [s EXCEPT !.tracks = Append(s.tracks, track)]

\* the first material with that id, None if there is none
get_material(s, id) ==
    LET i == FirstIndex(Len(s.materials), LAMBDA k : s.materials[k].id = id)
    IN IF i = 0 THEN None ELSE Some(s.materials[i])

\* a track pass that looks the materials up before it validates the track
TrackPassReferencesFirst(s, t) ==
    LET track == s.tracks[t]
        own == TrackValidate(track, t)
        dangling == FirstIndex(Len(track.segments),
                        LAMBDA i : get_material(s, track.segments[i].material_id) = None)
    IN IF dangling # 0 THEN Invalid("reference", t, dangling, "Material not found")
       ELSE own

\* one pass of the track loop of validate: the track itself (own fields, then
\* its segments), then the material references of its segments
TrackPass(s, t) ==
    LET track == s.tracks[t]
        own == TrackValidate(track, t)
        dangling == FirstIndex(Len(track.segments),
                        LAMBDA i : get_material(s, track.segments[i].material_id) = None)
    IN IF own.class # "ok" THEN own
       ELSE IF dangling # 0 THEN Invalid("reference", t, dangling, "Material not found")
       ELSE ValidOk

SessionValidate(s) ==
    IF s.stage.width <= 0 \/ s.stage.height <= 0
    THEN Invalid("stage", 0, 0, "Stage dimensions must be positive")
    ELSE LET badm == FirstIndex(Len(s.materials),
                         LAMBDA i : MaterialValidate(s.materials[i]) # "ok")
             badt == FirstIndex(Len(s.tracks),
                         LAMBDA t : TrackPass(s, t).class # "ok")
         IN IF badm # 0
            THEN Invalid("material", 0, badm, MaterialValidate(s.materials[badm]))
            ELSE IF badt # 0 THEN TrackPass(s, badt)
            ELSE ValidOk

total_duration(s) ==
    LET ds == {TrackDuration(s.tracks[t]) : t \in 1..Len(s.tracks)}
    IN IF ds = {} THEN 0 ELSE CHOOSE d \in ds : \A e \in ds : e <= d

\* the positions in s.tracks of the tracks of one type, in storage order
TracksOfType(s, track_type) ==
    SelectSeq([t \in 1..Len(s.tracks) |-> t],
              LAMBDA t : s.tracks[t].track_type = track_type)

video_tracks(s) == TracksOfType(s, "Video")
audio_tracks(s) == TracksOfType(s, "Audio")


(***************************************************************************)
(* CutProtocol (protocol.rs): the document form of a session.  Track and   *)
(* segment types are enum variants in the session and strings in the       *)
(* document.                                                               *)
(***************************************************************************)
\* Display for TrackType and for SegmentType
TypeToString(ty) ==
    CASE ty = "Video" -> "video"
      [] ty = "Audio" -> "audio"
      [] ty = "Image" -> "image"
      [] ty = "Text" -> "text"
      [] ty = "Subtitle" -> "subtitle"

KnownTypeTags == {"video", "audio", "image", "text", "subtitle"}

\* the match of to_session on a type tag; only called on a known tag
ParseType(tag) ==
    CASE tag = "video" -> "Video"
      [] tag = "audio" -> "Audio"
      [] tag = "image" -> "Image"
      [] tag = "text" -> "Text"
      [] tag = "subtitle" -> "Subtitle"

MapSeq(seq, F(_)) == [i \in 1..Len(seq) |-> F(seq[i])]

MaterialsOfType(s, ty) == SelectSeq(s.materials, LAMBDA m : m.type = ty)

VideoMaterialProto(m) ==
    [id |-> m.id, src |-> m.src, dimension |-> m.dimension, duration |-> m.duration,
     fps |-> m.fps, codec |-> m.codec, bitrate |-> m.bitrate]

AudioMaterialProto(m) ==
    [id |-> m.id, src |-> m.src, duration |-> m.duration,
     sample_rate |-> m.sample_rate, channels |-> m.channels, codec |-> m.codec,
     bitrate |-> m.bitrate]

ImageMaterialProto(m) ==
    [id |-> m.id, src |-> m.src, dimension |-> m.dimension, format |-> m.format]

ProtocolSegment(g) ==
    [id |-> g.id, segment_type |-> TypeToString(g.segment_type),
     material_id |-> g.material_id,
     target_timerange |-> g.target_timerange, source_timerange |-> g.source_timerange,
     scale |-> g.scale, position |-> g.position]

ProtocolTrack(track) ==
    [id |-> track.id, track_type |-> TypeToString(track.track_type),
     segments |-> MapSeq(track.segments, ProtocolSegment)]

from_session(s) ==
    [stage |-> [width |-> s.stage.width, height |-> s.stage.height],
     materials |-> [videos |-> MapSeq(MaterialsOfType(s, "Video"), VideoMaterialProto),
                    images |-> MapSeq(MaterialsOfType(s, "Image"), ImageMaterialProto),
                    audios |-> MapSeq(MaterialsOfType(s, "Audio"), AudioMaterialProto)],
     tracks |-> MapSeq(s.tracks, ProtocolTrack)]

VideoFromProto(v) ==
    [VideoMaterialNew(v.id, v.src, v.dimension.width, v.dimension.height) EXCEPT
        !.duration = v.duration, !.fps = v.fps, !.codec = v.codec,
        !.bitrate = v.bitrate]

AudioFromProto(a) ==
    [AudioMaterialNew(a.id, a.src) EXCEPT
        !.duration = a.duration, !.sample_rate = a.sample_rate,
        !.channels = a.channels, !.codec = a.codec, !.bitrate = a.bitrate]

ImageFromProto(i) ==
    [ImageMaterialNew(i.id, i.src, i.dimension.width, i.dimension.height) EXCEPT
        !.format = i.format]

SegmentFromProto(ps) ==
    [NewSegment(ps.id, ParseType(ps.segment_type), ps.material_id,
                ps.target_timerange, ps.source_timerange)
        EXCEPT !.scale = ps.scale, !.position = ps.position]

TrackFromProto(pt) ==
    [NewTrack(pt.id, ParseType(pt.track_type)) EXCEPT
        !.segments = MapSeq(pt.segments, SegmentFromProto)]

\* to_session: Err(InvalidParams) at the first unknown track or segment type
\* tag, else the session: videos, then audios, then images; tracks in order
\* the first complaint of CutProtocol::validate about one segment of a track,
\* given the ids of the document's materials
ProtocolSegmentError(segments, j, material_ids) ==
    IF segments[j].id = "" THEN "Segment ID cannot be empty"
    ELSE IF \E i \in 1..(j - 1) : segments[i].id = segments[j].id
         THEN "Duplicate segment ID"
    ELSE IF segments[j].material_id \notin material_ids
         THEN "Referenced material not found"
    ELSE IF segments[j].target_timerange.duration = 0
         THEN "Target duration must be positive"
    ELSE IF segments[j].source_timerange.duration = 0
         THEN "Source duration must be positive"
    ELSE IF IsSome(segments[j].scale)
            /\ (Unwrap(segments[j].scale).width <= 0
                \/ Unwrap(segments[j].scale).height <= 0)
         THEN "Scale dimensions must be positive"
    ELSE "ok"

ProtocolTrackError(tracks, t, material_ids) ==
    IF tracks[t].id = "" THEN "Track ID cannot be empty"
    ELSE IF \E i \in 1..(t - 1) : tracks[i].id = tracks[t].id
         THEN "Duplicate track ID"
    ELSE LET bad == FirstIndex(Len(tracks[t].segments),
                        LAMBDA j : ProtocolSegmentError(tracks[t].segments, j,
                                                        material_ids) # "ok")
         IN IF bad = 0 THEN "ok"
            ELSE ProtocolSegmentError(tracks[t].segments, bad, material_ids)

\* CutProtocol::validate: "ok" or the message of the first check that fails
ProtocolValidate(p) ==
    LET all == p.materials.videos \o p.materials.audios \o p.materials.images
        material_ids == {all[i].id : i \in 1..Len(all)}
        badm == FirstIndex(Len(all),
                    LAMBDA i : \/ all[i].id = ""
                               \/ \E j \in 1..(i - 1) : all[j].id = all[i].id)
        badt == FirstIndex(Len(p.tracks),
                    LAMBDA t : ProtocolTrackError(p.tracks, t, material_ids) # "ok")
    IN IF p.stage.width <= 0 \/ p.stage.height <= 0
       THEN "Stage dimensions must be positive"
       ELSE IF badm # 0
       THEN (IF all[badm].id = "" THEN "Material ID cannot be empty"
             ELSE "Duplicate material ID")
       ELSE IF badt # 0 THEN ProtocolTrackError(p.tracks, badt, material_ids)
       ELSE "ok"

\* a document whose unrecognized segment tags are read as "video"
SegmentTagsDefaulted(p) ==
    [p EXCEPT !.tracks =
        [t \in 1..Len(p.tracks) |->
            [p.tracks[t] EXCEPT !.segments =
                [j \in 1..Len(p.tracks[t].segments) |->
                    IF p.tracks[t].segments[j].segment_type \in KnownTypeTags
                    THEN p.tracks[t].segments[j]
                    ELSE [p.tracks[t].segments[j] EXCEPT !.segment_type = "video"]]]]]

\* a conversion that rejects an unrecognized track tag only
to_session_lenient(p) ==
    IF \E t \in 1..Len(p.tracks) : p.tracks[t].track_type \notin KnownTypeTags
    THEN [ok |-> FALSE, err |-> "InvalidParams", session |-> None]
    ELSE [ok |-> TRUE, err |-> "",
          session |-> Some(
             [stage |-> Stage(p.stage.width, p.stage.height),
              materials |-> MapSeq(SegmentTagsDefaulted(p).materials.videos, VideoFromProto)
                            \o MapSeq(SegmentTagsDefaulted(p).materials.audios, AudioFromProto)
                            \o MapSeq(SegmentTagsDefaulted(p).materials.images, ImageFromProto),
              tracks |-> MapSeq(SegmentTagsDefaulted(p).tracks, TrackFromProto)])]

to_session(p) ==
    LET unknown(pt) == \/ pt.track_type \notin KnownTypeTags
                       \/ \E j \in 1..Len(pt.segments) :
                             pt.segments[j].segment_type \notin KnownTypeTags
    IN IF \E t \in 1..Len(p.tracks) : unknown(p.tracks[t])
       THEN [ok |-> FALSE, err |-> "InvalidParams", session |-> None]
       ELSE [ok |-> TRUE, err |-> "",
             session |-> Some(
                [stage |-> Stage(p.stage.width, p.stage.height),
                 materials |-> MapSeq(p.materials.videos, VideoFromProto)
                               \o MapSeq(p.materials.audios, AudioFromProto)
                               \o MapSeq(p.materials.images, ImageFromProto),
                 tracks |-> MapSeq(p.tracks, TrackFromProto)])]


(***************************************************************************)
(* The command under construction (ffmpeg/mod.rs, filter.rs, input.rs,     *)
(* output.rs) and Editor::export (editor.rs), which compiles the session   *)
(* into it.  Times stay in whole milliseconds.  A stream reference is      *)
(*   [kind, index, stream, label]: an input's "v"/"a" stream by the        *)
(* input's position, or a filter's output by the filter's label; index is  *)
(* the position of the referenced filter in the filter list.  Every filter *)
(* carries origin = <<track, segment>>, the positions in the session of    *)
(* the segment it was emitted for (<<0, 0>> for the filters emitted for    *)
(* the whole session).                                                     *)
(***************************************************************************)
\* the labels one compilation may draw: Filter::with_name draws each label at
\* random, so two compilations draw different labels and two filters of one
\* compilation may draw the same one
LabelDraws ==
    {[base |-> 100, clash |-> FALSE], [base |-> 100, clash |-> TRUE]}

\* the label drawn for the k-th filter created
DrawnLabel(draw, k) == IF draw.clash /\ k = 2 THEN draw.base + 1 ELSE draw.base + k

FFmpegNew(draw) ==
    [inputs |-> <<>>, filters |-> <<>>, outputs |-> <<>>, draw |-> draw]

InputWithTime(start_time, duration, path) ==
    [path |-> path, start_time |-> Some(start_time), duration |-> Some(duration)]

InputRef(index, stream) ==
    [kind |-> "input", index |-> index, stream |-> stream, label |-> 0]

FilterRef(ffmpeg, index) ==
    [kind |-> "filter", index |-> index, stream |-> "",
     label |-> ffmpeg.filters[index].label]

\* Filter::with_name(name) with its parameters; expr tells the expression the
\* numbers of params were formatted into
Filter(name, expr, params) ==
    [name |-> name, expr |-> expr, params |-> params]

add_input(ffmpeg, input) == [ffmpeg EXCEPT !.inputs = Append(ffmpeg.inputs, input)]

\* the filter is created (its label drawn), wired to its inputs and pushed
add_filter(ffmpeg, filter, inputs, origin) ==
    [ffmpeg EXCEPT !.filters = Append(ffmpeg.filters,
        [name |-> filter.name, expr |-> filter.expr, params |-> filter.params,
         inputs |-> inputs,
         label |-> DrawnLabel(ffmpeg.draw, Len(ffmpeg.filters) + 1),
         origin |-> origin])]

\* the reference to the filter pushed last
LastFilter(ffmpeg) == FilterRef(ffmpeg, Len(ffmpeg.filters))

ExportOptionsNew(output_file, export_type) ==
    [output_file |-> output_file, export_type |-> export_type,
     video_codec |-> None, audio_codec |-> None, quality |-> None,
     video_bitrate |-> None, audio_bitrate |-> None, custom_options |-> {}]

OutputWithSimple(path) ==
    [path |-> path, mappings |-> <<>>, video_codec |-> None, audio_codec |-> None,
     crf |-> None, video_bitrate |-> None, audio_bitrate |-> None,
     mov_flags |-> None, options |-> <<>>]

UnwrapOr(o, default) == IF IsSome(o) THEN Unwrap(o) ELSE default

\* <<t, 1>>, <<t, 2>>, ... for the segments of the tracks at positions ts
RECURSIVE SegmentsOfTracks(_, _)
SegmentsOfTracks(s, ts) ==
    IF ts = <<>> THEN <<>>
    ELSE [j \in 1..Len(s.tracks[Head(ts)].segments) |-> <<Head(ts), j>>]
         \o SegmentsOfTracks(s, Tail(ts))

Reverse(seq) == [i \in 1..Len(seq) |-> seq[Len(seq) + 1 - i]]

SegmentAt(s, at) == s.tracks[at[1]].segments[at[2]]

\* the engine's reading of between(t, lo, hi) in an enable expression: both
\* ends belong to the interval
Between(t, lo, hi) == lo <= t /\ t <= hi

\* the state of one compilation: the command, the HashMap material_inputs
\* (material id -> position of its input), the running canvas and the
\* collected per-segment audio streams
CompileNew(draw) ==
    [ffmpeg |-> FFmpegNew(draw), material_inputs |-> <<>>,
     stage_bg |-> InputRef(0, ""), audio_inputs |-> <<>>]

IsBound(c, material_id) ==
    \E k \in 1..Len(c.material_inputs) : c.material_inputs[k].key = material_id

BoundInput(c, material_id) ==
    c.material_inputs[CHOOSE k \in 1..Len(c.material_inputs) :
                          c.material_inputs[k].key = material_id].input

\* the binding step that binds an input for every segment it meets
BindSegmentEverySegment(s, at, c) ==
    LET segment == SegmentAt(s, at)
        material == get_material(s, segment.material_id)
    IN IF material = None THEN c
       ELSE LET ffmpeg == add_input(c.ffmpeg,
                              InputWithTime(segment.source_timerange.start,
                                            segment.source_timerange.duration,
                                            Unwrap(material).src))
            IN [c EXCEPT !.ffmpeg = ffmpeg,
                         !.material_inputs = Append(c.material_inputs,
                             [key |-> segment.material_id, input |-> Len(ffmpeg.inputs)])]

\* one step of the binding loop: the segment at <<track, segment>>
BindSegment(s, at, c) ==
    LET segment == SegmentAt(s, at)
        material == get_material(s, segment.material_id)
    IN IF IsBound(c, segment.material_id) \/ material = None THEN c
       ELSE LET ffmpeg == add_input(c.ffmpeg,
                              InputWithTime(segment.source_timerange.start,
                                            segment.source_timerange.duration,
                                            Unwrap(material).src))
            IN [c EXCEPT !.ffmpeg = ffmpeg,
                         !.material_inputs = Append(c.material_inputs,
                             [key |-> segment.material_id, input |-> Len(ffmpeg.inputs)])]

RECURSIVE BindInputs(_, _, _)
BindInputs(s, todo, c) ==
    IF todo = <<>> THEN c
    ELSE BindInputs(s, Tail(todo), BindSegment(s, Head(todo), c))

StageBackground(s, c) ==
    LET ffmpeg == add_filter(c.ffmpeg,
                      Filter("color", "", <<s.stage.width, s.stage.height,
                                             total_duration(s)>>),
                      <<>>, <<0, 0>>)
    IN [c EXCEPT !.ffmpeg = ffmpeg, !.stage_bg = LastFilter(ffmpeg)]

\* a video chain that adjusts the speed before it scales
VideoSegmentSpeedFirst(s, at, c) ==
    LET segment == SegmentAt(s, at)
    IN IF ~IsBound(c, segment.material_id) THEN c
       ELSE
       LET v0 == InputRef(BoundInput(c, segment.material_id), "v")
           target_start == segment.target_timerange.start
           target_duration == segment.target_timerange.duration
           f1 == IF needs_speed_adjustment(segment)
                 THEN add_filter(c.ffmpeg, Filter("setpts", "1/speed*PTS",
                                                  playback_speed(segment)), <<v0>>, at)
                 ELSE c.ffmpeg
           v1 == IF needs_speed_adjustment(segment) THEN LastFilter(f1) ELSE v0
           f2 == IF IsSome(segment.scale)
                 THEN add_filter(f1,
                          Filter("scale", "", <<Unwrap(segment.scale).width,
                                                 Unwrap(segment.scale).height>>),
                          <<v1>>, at)
                 ELSE f1
           v2 == IF IsSome(segment.scale) THEN LastFilter(f2) ELSE v1
           f3 == add_filter(f2, Filter("setpts", "PTS+start/TB", <<target_start>>),
                            <<v2>>, at)
           v3 == LastFilter(f3)
           x == IF IsSome(segment.position) THEN Unwrap(segment.position).x ELSE 0
           y == IF IsSome(segment.position) THEN Unwrap(segment.position).y ELSE 0
           f4 == add_filter(f3,
                     Filter("overlay", "enable=between(t,from,to)",
                            <<x, y, target_start, target_start + target_duration>>),
                     <<c.stage_bg, v3>>, at)
       IN [c EXCEPT !.ffmpeg = f4, !.stage_bg = LastFilter(f4)]

\* the video chain of one segment: scale, speed, placement, overlay
VideoSegment(s, at, c) ==
    LET segment == SegmentAt(s, at)
    IN IF ~IsBound(c, segment.material_id) THEN c
       ELSE
       LET v0 == InputRef(BoundInput(c, segment.material_id), "v")
           target_start == segment.target_timerange.start
           target_duration == segment.target_timerange.duration
           f1 == IF IsSome(segment.scale)
                 THEN add_filter(c.ffmpeg,
                          Filter("scale", "", <<Unwrap(segment.scale).width,
                                                 Unwrap(segment.scale).height>>),
                          <<v0>>, at)
                 ELSE c.ffmpeg
           v1 == IF IsSome(segment.scale) THEN LastFilter(f1) ELSE v0
           f2 == IF needs_speed_adjustment(segment)
                 THEN add_filter(f1, Filter("setpts", "1/speed*PTS",
                                            playback_speed(segment)), <<v1>>, at)
                 ELSE f1
           v2 == IF needs_speed_adjustment(segment) THEN LastFilter(f2) ELSE v1
           f3 == add_filter(f2, Filter("setpts", "PTS+start/TB", <<target_start>>),
                            <<v2>>, at)
           v3 == LastFilter(f3)
           x == IF IsSome(segment.position) THEN Unwrap(segment.position).x ELSE 0
           y == IF IsSome(segment.position) THEN Unwrap(segment.position).y ELSE 0
           f4 == add_filter(f3,
                     Filter("overlay", "enable=between(t,from,to)",
                            <<x, y, target_start, target_start + target_duration>>),
                     <<c.stage_bg, v3>>, at)
       IN [c EXCEPT !.ffmpeg = f4, !.stage_bg = LastFilter(f4)]

RECURSIVE VideoSegments(_, _, _)
VideoSegments(s, todo, c) ==
    IF todo = <<>> THEN c
    ELSE VideoSegments(s, Tail(todo), VideoSegment(s, Head(todo), c))

\* the video tracks in the order the loop visits them, in storage order
VideoTrackOrderStorage(s) ==
    SelectSeq(video_tracks(s), LAMBDA t : s.tracks[t].enabled)

\* the video tracks in the order the loop visits them: video_tracks() reversed,
\* the disabled ones skipped
VideoTrackOrder(s) ==
    SelectSeq(Reverse(video_tracks(s)), LAMBDA t : s.tracks[t].enabled)

\* an audio loop that skips the disabled tracks only
AudioTrackOrderMutedToo(s) ==
    SelectSeq(audio_tracks(s), LAMBDA t : s.tracks[t].enabled)

\* the audio tracks the loop does not skip
AudioTrackOrder(s) ==
    SelectSeq(audio_tracks(s), LAMBDA t : s.tracks[t].enabled /\ ~s.tracks[t].muted)

\* the audio chain of one segment: trim and reset, tempo, delay
AudioSegment(s, at, c) ==
    LET segment == SegmentAt(s, at)
    IN IF ~IsBound(c, segment.material_id) THEN c
       ELSE
       LET a0 == InputRef(BoundInput(c, segment.material_id), "a")
           source_start == segment.source_timerange.start
           source_duration == segment.source_timerange.duration
           target_start == segment.target_timerange.start
           target_duration == segment.target_timerange.duration
           trims == source_start > 0 \/ source_duration # target_duration
           f1 == IF trims
                 THEN add_filter(c.ffmpeg,
                          Filter("atrim", "", <<source_start, source_duration>>),
                          <<a0>>, at)
                 ELSE c.ffmpeg
           f2 == IF trims
                 THEN add_filter(f1, Filter("asetpts", "PTS-STARTPTS", <<>>),
                                 <<LastFilter(f1)>>, at)
                 ELSE f1
           a2 == IF trims THEN LastFilter(f2) ELSE a0
           f3 == IF needs_speed_adjustment(segment)
                 THEN add_filter(f2, Filter("atempo", "", playback_speed(segment)),
                                 <<a2>>, at)
                 ELSE f2
           a3 == IF needs_speed_adjustment(segment) THEN LastFilter(f3) ELSE a2
           f4 == IF target_start > 0
                 THEN add_filter(f3, Filter("adelay", "ms", <<target_start>>),
                                 <<a3>>, at)
                 ELSE f3
           a4 == IF target_start > 0 THEN LastFilter(f4) ELSE a3
       IN [c EXCEPT !.ffmpeg = f4, !.audio_inputs = Append(c.audio_inputs, a4)]

RECURSIVE AudioSegments(_, _, _)
AudioSegments(s, todo, c) ==
    IF todo = <<>> THEN c
    ELSE AudioSegments(s, Tail(todo), AudioSegment(s, Head(todo), c))

\* a mix that sends a single stream through amix as well
MixAudioSingleThroughAmix(s, c) ==
    IF c.audio_inputs = <<>>
    THEN LET ffmpeg == add_filter(c.ffmpeg,
                           Filter("anullsrc", "", <<total_duration(s)>>),
                           <<>>, <<0, 0>>)
         IN [ffmpeg |-> ffmpeg, sound_bg |-> LastFilter(ffmpeg)]
    ELSE LET ffmpeg == add_filter(c.ffmpeg,
                           Filter("amix", "", <<Len(c.audio_inputs)>>),
                           c.audio_inputs, <<0, 0>>)
         IN [ffmpeg |-> ffmpeg, sound_bg |-> LastFilter(ffmpeg)]

\* the mix of the collected audio streams: the command and the stream sound_bg
MixAudio(s, c) ==
    IF c.audio_inputs = <<>>
    THEN LET ffmpeg == add_filter(c.ffmpeg,
                           Filter("anullsrc", "", <<total_duration(s)>>),
                           <<>>, <<0, 0>>)
         IN [ffmpeg |-> ffmpeg, sound_bg |-> LastFilter(ffmpeg)]
    ELSE IF Len(c.audio_inputs) = 1
    THEN [ffmpeg |-> c.ffmpeg, sound_bg |-> c.audio_inputs[1]]
    ELSE LET ffmpeg == add_filter(c.ffmpeg,
                           Filter("amix", "", <<Len(c.audio_inputs)>>),
                           c.audio_inputs, <<0, 0>>)
         IN [ffmpeg |-> ffmpeg, sound_bg |-> LastFilter(ffmpeg)]

\* an output that maps the audio mix before the video canvas
ExportOutputAudioFirst(options, stage_bg, sound_bg) ==
    IF options.export_type = "Video"
    THEN [OutputWithSimple(options.output_file) EXCEPT
            !.mappings = <<sound_bg, stage_bg>>,
            !.video_codec = Some(UnwrapOr(options.video_codec, "libx264")),
            !.audio_codec = Some(UnwrapOr(options.audio_codec, "aac")),
            !.crf = options.quality,
            !.video_bitrate = options.video_bitrate,
            !.audio_bitrate = options.audio_bitrate,
            !.mov_flags = Some("faststart")]
    ELSE [OutputWithSimple(options.output_file) EXCEPT
            !.mappings = <<sound_bg>>,
            !.audio_codec = Some(UnwrapOr(options.audio_codec, "mp3")),
            !.audio_bitrate = options.audio_bitrate]

\* the output of the command; custom_options of the export options are not read
ExportOutput(options, stage_bg, sound_bg) ==
    IF options.export_type = "Video"
    THEN [OutputWithSimple(options.output_file) EXCEPT
            !.mappings = <<stage_bg, sound_bg>>,
            !.video_codec = Some(UnwrapOr(options.video_codec, "libx264")),
            !.audio_codec = Some(UnwrapOr(options.audio_codec, "aac")),
            !.crf = options.quality,
            !.video_bitrate = options.video_bitrate,
            !.audio_bitrate = options.audio_bitrate,
            !.mov_flags = Some("faststart")]
    ELSE [OutputWithSimple(options.output_file) EXCEPT
            !.mappings = <<sound_bg>>,
            !.audio_codec = Some(UnwrapOr(options.audio_codec, "mp3")),
            !.audio_bitrate = options.audio_bitrate]

\* a compilation that binds inputs for the segments of the video tracks only
CompileBindsVideoTracksOnly(s, options, draw) ==
    LET bound == BindInputs(s, SegmentsOfTracks(s, video_tracks(s)),
                            CompileNew(draw))
        staged == StageBackground(s, bound)
        video == VideoSegments(s, SegmentsOfTracks(s, VideoTrackOrder(s)), staged)
        audio == AudioSegments(s, SegmentsOfTracks(s, AudioTrackOrder(s)), video)
        mixed == MixAudio(s, audio)
    IN [ffmpeg |-> [mixed.ffmpeg EXCEPT !.outputs =
                        <<ExportOutput(options, audio.stage_bg, mixed.sound_bg)>>],
        material_inputs |-> audio.material_inputs,
        audio_inputs |-> audio.audio_inputs,
        stage_bg |-> audio.stage_bg,
        sound_bg |-> mixed.sound_bg]

\* the compilation proper, after validation: the finished command with, beside
\* it, what the compilation collected on the way
Compile(s, options, draw) ==
    LET bound == BindInputs(s, SegmentsOfTracks(s, [t \in 1..Len(s.tracks) |-> t]),
                            CompileNew(draw))
        staged == StageBackground(s, bound)
        video == VideoSegments(s, SegmentsOfTracks(s, VideoTrackOrder(s)), staged)
        audio == AudioSegments(s, SegmentsOfTracks(s, AudioTrackOrder(s)), video)
        mixed == MixAudio(s, audio)
    IN [ffmpeg |-> [mixed.ffmpeg EXCEPT !.outputs =
                        <<ExportOutput(options, audio.stage_bg, mixed.sound_bg)>>],
        material_inputs |-> audio.material_inputs,
        audio_inputs |-> audio.audio_inputs,
        stage_bg |-> audio.stage_bg,
        sound_bg |-> mixed.sound_bg]

\* an export that compiles first and validates only before the engine is run
ExportValidatesLate(s, options, draw, engine_ok) ==
    [ok |-> SessionValidate(s).class = "ok" /\ engine_ok,
     err |-> IF SessionValidate(s).class # "ok" THEN SessionValidate(s)
             ELSE IF engine_ok THEN ValidOk
             ELSE Invalid("engine", 0, 0, "engine failed"),
     compiled |-> Some(Compile(s, options, draw)),
     ran |-> SessionValidate(s).class = "ok"]

\* Editor::export: the validation error, or the compiled command handed to the
\* engine and the engine's verdict
Export(s, options, draw, engine_ok) ==
    IF SessionValidate(s).class # "ok"
    THEN [ok |-> FALSE, err |-> SessionValidate(s), compiled |-> None, ran |-> FALSE]
    ELSE [ok |-> engine_ok,
          err |-> IF engine_ok THEN ValidOk ELSE Invalid("engine", 0, 0, "engine failed"),
          compiled |-> Some(Compile(s, options, draw)), ran |-> TRUE]

(***************************************************************************)
(* Editor::fix (editor.rs): the material resolver.  Every material is      *)
(* probed by its src, in storage order, and the absent fields are filled   *)
(* from the answer.  A text that the probe returns is                      *)
(*   [parses |-> TRUE, value |-> n]  when it reads as the number n,        *)
(*   [parses |-> FALSE, value |-> 0] otherwise;                            *)
(* a frame rate is the sequence of the texts between its slashes.          *)
(***************************************************************************)
NumberText(n) == [parses |-> TRUE, value |-> n]
GarbageText == [parses |-> FALSE, value |-> 0]

\* str.parse::<u32>() / str.parse::<f32>()
ParseNumber(text) == IF text.parses THEN Some(text.value) ELSE None

\* Editor::parse_fraction_to_float: Ok(numerator / denominator) or an error
parse_fraction_to_float(parts) ==
    IF /\ Len(parts) = 2
       /\ parts[1].parses /\ parts[2].parses
       /\ parts[2].value # 0
    THEN Some(parts[1].value \div parts[2].value)
    ELSE None

StreamInfo(codec_type) ==
    [codec_type |-> Some(codec_type), codec_name |-> None, width |-> None,
     height |-> None, r_frame_rate |-> None, bit_rate |-> None,
     sample_rate |-> None, channels |-> None]

MediaInfo(format_duration, streams) ==
    [format |-> Some([duration |-> format_duration]), streams |-> streams]

\* the first stream of that codec type, None if there is none
FindStream(media_info, codec_type) ==
    LET i == FirstIndex(Len(media_info.streams),
                 LAMBDA k : media_info.streams[k].codec_type = Some(codec_type))
    IN IF i = 0 THEN None ELSE Some(media_info.streams[i])

\* "Fill dimensions if missing"
FillDimension(dimension, stream) ==
    IF (dimension.width = 0 \/ dimension.height = 0)
       /\ IsSome(stream.width) /\ IsSome(stream.height)
    THEN Dimension(Unwrap(stream.width), Unwrap(stream.height))
    ELSE dimension

\* bit_rate.parse::<u32>() / 1000, if it parses
FillBitrate(bitrate, stream) ==
    IF bitrate = None /\ IsSome(stream.bit_rate)
                      /\ IsSome(ParseNumber(Unwrap(stream.bit_rate)))
    THEN Some(Unwrap(ParseNumber(Unwrap(stream.bit_rate))) \div 1000)
    ELSE bitrate

\* (duration_seconds * 1000.0) as u32, if there is a format with a duration
\* that parses
FillDuration(duration, media_info) ==
    IF /\ duration = None
       /\ IsSome(media_info.format)
       /\ IsSome(Unwrap(media_info.format).duration)
       /\ IsSome(ParseNumber(Unwrap(Unwrap(media_info.format).duration)))
    THEN Some(Unwrap(ParseNumber(Unwrap(Unwrap(media_info.format).duration))) * 1000)
    ELSE duration

FixVideo(video, media_info) ==
    LET found == FindStream(media_info, "video")
        stream == Unwrap(found)
        v1 == IF found = None THEN video
              ELSE [video EXCEPT
                     !.dimension = FillDimension(video.dimension, stream),
                     !.fps = IF video.fps = None /\ IsSome(stream.r_frame_rate)
                             THEN parse_fraction_to_float(Unwrap(stream.r_frame_rate))
                             ELSE video.fps,
                     !.codec = IF video.codec = None THEN stream.codec_name
                               ELSE video.codec,
                     !.bitrate = FillBitrate(video.bitrate, stream)]
    IN [v1 EXCEPT !.duration = FillDuration(video.duration, media_info)]

FixAudio(audio, media_info) ==
    LET found == FindStream(media_info, "audio")
        stream == Unwrap(found)
        a1 == IF found = None THEN audio
              ELSE [audio EXCEPT
                     !.sample_rate =
                         IF audio.sample_rate = None /\ IsSome(stream.sample_rate)
                            /\ IsSome(ParseNumber(Unwrap(stream.sample_rate)))
                         THEN ParseNumber(Unwrap(stream.sample_rate))
                         ELSE audio.sample_rate,
                     !.channels = IF audio.channels = None THEN stream.channels
                                  ELSE audio.channels,
                     !.codec = IF audio.codec = None THEN stream.codec_name
                               ELSE audio.codec,
                     !.bitrate = FillBitrate(audio.bitrate, stream)]
    IN [a1 EXCEPT !.duration = FillDuration(audio.duration, media_info)]

FixImage(image, media_info) ==
    LET found == FindStream(media_info, "video")
        stream == Unwrap(found)
    IN IF found = None THEN image
       ELSE [image EXCEPT
               !.dimension = FillDimension(image.dimension, stream),
               !.format = IF image.format = None THEN stream.codec_name
                          ELSE image.format]

FixMaterial(material, media_info) ==
    CASE material.type = "Video" -> FixVideo(material, media_info)
      [] material.type = "Audio" -> FixAudio(material, media_info)
      [] material.type = "Image" -> FixImage(material, media_info)

\* the loop of fix from material k on; answers[k] is what the probe of material
\* k returns, if it is asked: [ok |-> TRUE, info |-> media_info] or a failure.
\* probes lists the positions of the materials probed so far.
RECURSIVE FixLoopGoesOn(_, _, _, _)
FixLoopGoesOn(materials, answers, k, probes) ==
    IF k > Len(materials)
    THEN [ok |-> TRUE, materials |-> materials, probes |-> probes]
    ELSE IF ~answers[k].ok
    THEN LET rest == FixLoopGoesOn(materials, answers, k + 1, Append(probes, k))
         IN [rest EXCEPT !.ok = FALSE]
    ELSE FixLoopGoesOn([materials EXCEPT ![k] = FixMaterial(@, answers[k].info)],
                       answers, k + 1, Append(probes, k))

RECURSIVE FixLoop(_, _, _, _)
FixLoop(materials, answers, k, probes) ==
    IF k > Len(materials)
    THEN [ok |-> TRUE, materials |-> materials, probes |-> probes]
    ELSE IF ~answers[k].ok
    THEN [ok |-> FALSE, materials |-> materials, probes |-> Append(probes, k)]
    ELSE FixLoop([materials EXCEPT ![k] = FixMaterial(@, answers[k].info)],
                 answers, k + 1, Append(probes, k))

\* a fix that notes a failed probe and goes on with the next material
FixGoesOn(s, answers) == FixLoopGoesOn(s.materials, answers, 1, <<>>)

\* Editor::fix: Ok or the probe's error, the materials as the loop left them,
\* and the probes it issued
Fix(s, answers) == FixLoop(s.materials, answers, 1, <<>>)

(***************************************************************************)
(* The segment under edit: constructed by Segment::new, which accepts any  *)
(* two time ranges, then edited in place.                                  *)
(***************************************************************************)
DefaultSession == NewSession(Stage(1920, 1080))

SegScales == {None, Some([width |-> 4, height |-> 2])}

InitSeg ==
    /\ project = NewProject
    /\ session = DefaultSession
    /\ \E ts \in Starts, td \in Durations, ss \in Starts, sd \in Durations,
          sc \in SegScales :
          seg = [NewSegment("seg1", "Video", "mat1",
                            TimeRange(ts, td), TimeRange(ss, sd))
                    EXCEPT !.scale = sc]
    /\ call = [op |-> "new"]

SegTrimStart ==
    \E a \in Amounts :
        /\ trim_start(seg, a).target_timerange.start <= StartCap
        /\ trim_start(seg, a).source_timerange.start <= StartCap
        /\ seg' = trim_start(seg, a)
        /\ call' = [op |-> "trim_start", arg |-> a, pre |-> seg]
        /\ UNCHANGED <<session, project>>

SegTrimEnd ==
    \E a \in Amounts :
        /\ seg' = trim_end(seg, a)
        /\ call' = [op |-> "trim_end", arg |-> a, pre |-> seg]
        /\ UNCHANGED <<session, project>>

SegResize ==
    \E d \in Durations :
        /\ seg' = resize(seg, d)
        /\ call' = [op |-> "resize", arg |-> d, pre |-> seg]
        /\ UNCHANGED <<session, project>>

SegMoveTo ==
    \E t \in Starts :
        /\ seg' = move_to(seg, t)
        /\ call' = [op |-> "move_to", arg |-> t, pre |-> seg]
        /\ UNCHANGED <<session, project>>

SegSplitAt ==
    \E t \in Times :
        /\ call' = [op |-> "split_at", arg |-> t, pre |-> seg, ret |-> split_at(seg, t)]
        /\ UNCHANGED <<session, seg, project>>

NextSeg == SegTrimStart \/ SegTrimEnd \/ SegResize \/ SegMoveTo \/ SegSplitAt

SpecSeg == InitSeg /\ [][NextSeg]_vars

(***************************************************************************)
(* The editor and its session: constructed by Editor::new().set_stage(..), *)
(* filled by add_material and add_track, then validated, saved to and      *)
(* loaded from a protocol document, and exported.                          *)
(***************************************************************************)
MaxTracks == 2

Position(x, y) == [x |-> x, y |-> y]

\* the materials a caller adds (no caller here adds an id a second time)
V1 == [VideoMaterialNew("m1", "a.mp4", 16, 9) EXCEPT
          !.duration = Some(6), !.fps = Some(30)]
VBad == VideoMaterialNew("m1", "a.mp4", 0, 9)
A2 == [AudioMaterialNew("m2", "b.wav") EXCEPT !.sample_rate = Some(48)]
MaterialPool == {V1, VBad, A2}

\* the segments a caller puts on its tracks
G1 == NewSegment("s1", "Video", "m1", TimeRange(0, 2), TimeRange(0, 2))
G2 == [NewSegment("s2", "Video", "m1", TimeRange(2, 2), TimeRange(1, 4)) EXCEPT
          !.scale = Some(Dimension(4, 2)), !.position = Some(Position(1, 1))]
A1 == NewSegment("s4", "Audio", "m2", TimeRange(0, 2), TimeRange(0, 2))
A3 == NewSegment("s5", "Audio", "m2", TimeRange(2, 1), TimeRange(1, 2))
Bref == NewSegment("s6", "Video", "m9", TimeRange(0, 1), TimeRange(0, 1))
Bdur == NewSegment("s7", "Video", "m1", TimeRange(0, 0), TimeRange(0, 1))

WithSegments(track, segments) == [track EXCEPT !.segments = segments]

\* the tracks a caller builds under the id it chose: Track::new, the public
\* fields set, the segments added
TrackPool(id) ==
    { WithSegments(NewTrack(id, "Video"), <<G2, G1>>),
      WithSegments([NewTrack(id, "Video") EXCEPT !.enabled = FALSE], <<G1>>),
      WithSegments(NewTrack(id, "Audio"), <<A1>>),
      WithSegments([NewTrack(id, "Audio") EXCEPT !.volume = 5], <<A1, A3>>),
      WithSegments([NewTrack(id, "Audio") EXCEPT !.muted = TRUE], <<A3>>),
      WithSegments([NewTrack(id, "Audio") EXCEPT !.enabled = FALSE], <<A1>>),
      WithSegments([NewTrack(id, "Audio") EXCEPT !.volume = 20], <<A1>>),
      WithSegments(NewTrack(id, "Video"), <<Bref, Bdur>>) }

TrackIds == <<"t1", "t2", "t3", "t4">>

ExportOptionsPool ==
    { [ExportOptionsNew("out.mp4", "Video") EXCEPT
          !.quality = Some(23), !.custom_options = {<<"preset", "fast">>}],
      [ExportOptionsNew("out.mp3", "Audio") EXCEPT
          !.custom_options = {<<"ar", "44100">>}] }

\* the documents a caller may hand to load_from_protocol after a save: the one
\* saved, or that one with a type tag no conversion knows
Documents(saved) ==
    {saved}
    \cup (IF saved.tracks = <<>> THEN {}
          ELSE {[saved EXCEPT !.tracks[1].track_type = "bogus"]})
    \cup (IF saved.tracks = <<>> \/ saved.tracks[1].segments = <<>> THEN {}
          ELSE {[saved EXCEPT !.tracks[1].segments[1].segment_type = "bogus"]})

Init ==
    /\ project = NewProject
    /\ session \in {NewSession(Stage(1920, 1080)), NewSession(Stage(0, 1080))}
    /\ seg = NewSegment("seg1", "Video", "mat1", TimeRange(0, 1), TimeRange(0, 1))
    /\ call = [op |-> "new"]

AddMaterial ==
    \E m \in MaterialPool :
        /\ \A k \in 1..Len(session.materials) : session.materials[k].id # m.id
        /\ session' = add_material(session, m)
        /\ call' = [op |-> "add_material", ret |-> m.id]
        /\ UNCHANGED <<seg, project>>

AddTrack ==
    /\ Len(session.tracks) < MaxTracks
    /\ \E track \in TrackPool(TrackIds[Len(session.tracks) + 1]) :
        /\ session' = add_track(session, track)
        /\ call' = [op |-> "add_track", ret |-> track.id]
        /\ UNCHANGED <<seg, project>>

Validate ==
    /\ call' = [op |-> "validate", pre |-> session, ret |-> SessionValidate(session)]
    /\ UNCHANGED <<session, seg, project>>

SaveToProtocol ==
    /\ call' = [op |-> "save_to_protocol", pre |-> session,
                ret |-> from_session(session)]
    /\ UNCHANGED <<session, seg, project>>

LoadFromProtocol ==
    /\ call.op = "save_to_protocol"
    /\ \E doc \in Documents(call.ret) :
        /\ session' = IF to_session(doc).ok
                      THEN Unwrap(to_session(doc).session)
                      ELSE session
        /\ call' = [op |-> "load_from_protocol", pre |-> session, doc |-> doc,
                    ret |-> to_session(doc)]
    /\ UNCHANGED <<seg, project>>

ExportSession ==
    \E options \in ExportOptionsPool, draw \in LabelDraws, engine_ok \in BOOLEAN :
        /\ call' = [op |-> "export", pre |-> session, options |-> options,
                    ret |-> Export(session, options, draw, engine_ok)]
        /\ UNCHANGED <<session, seg, project>>

Next ==
    \/ AddMaterial
    \/ AddTrack
    \/ Validate
    \/ SaveToProtocol
    \/ LoadFromProtocol
    \/ ExportSession

Spec == Init /\ [][Next]_vars

(***************************************************************************)
(* One track under edit: built by Track::new, filled by add_segment in     *)
(* whatever order the caller adds, and asked whether its segments overlap. *)
(***************************************************************************)
MaxSegments == 3

OverlapStarts == 0..(MaxStart + 1)
OverlapDurations == 0..2
SegmentIds == <<"s1", "s2", "s3", "s4", "s5">>

TheTrack == session.tracks[1]

InitTrack ==
    /\ project = NewProject
    /\ session = add_track(DefaultSession, NewTrack("t1", "Video"))
    /\ seg = NewSegment("seg1", "Video", "mat1", TimeRange(0, 1), TimeRange(0, 1))
    /\ call = [op |-> "new"]

TrackAddSegment ==
    /\ Len(TheTrack.segments) < MaxSegments
    /\ \E start \in OverlapStarts, duration \in OverlapDurations :
          LET segment == NewSegment(SegmentIds[Len(TheTrack.segments) + 1], "Video",
                                    "m1", TimeRange(start, duration),
                                    TimeRange(0, duration))
          IN /\ session' = [session EXCEPT !.tracks[1] = add_segment(TheTrack, segment)]
             /\ call' = [op |-> "add_segment", arg |-> segment]
    /\ UNCHANGED <<seg, project>>

TrackHasOverlappingSegments ==
    /\ call' = [op |-> "has_overlapping_segments", pre |-> TheTrack,
                ret |-> has_overlapping_segments(TheTrack)]
    /\ UNCHANGED <<session, seg, project>>

NextTrack == TrackAddSegment \/ TrackHasOverlappingSegments

SpecTrack == InitTrack /\ [][NextTrack]_vars

(***************************************************************************)
(* The resolver at work: an editor whose session holds materials with      *)
(* some, all or none of their fields known, and fix() run on it against    *)
(* whatever the probe answers.                                             *)
(***************************************************************************)
MaxMaterials == 2

VNew == VideoMaterialNew("m1", "a.mp4", 0, 0)
VHalf == VideoMaterialNew("m1", "a.mp4", 16, 0)
VFull == [VideoMaterialNew("m1", "a.mp4", 16, 9) EXCEPT
             !.duration = Some(6), !.fps = Some(25), !.codec = Some("vp9"),
             !.bitrate = Some(500)]
AFull == [AudioMaterialNew("m2", "b.wav") EXCEPT
             !.duration = Some(6), !.sample_rate = Some(48), !.channels = Some(1),
             !.codec = Some("pcm"), !.bitrate = Some(64)]
INew == ImageMaterialNew("m3", "c.png", 0, 0)
FixMaterialPool == {VNew, VHalf, VFull, A2, AFull, INew}

ProbeFailure == [ok |-> FALSE, info |-> None]
\* a file with a video and an audio stream, everything known
ProbeComplete ==
    [ok |-> TRUE,
     info |-> MediaInfo(Some(NumberText(5)),
        << [StreamInfo("video") EXCEPT
               !.codec_name = Some("h264"), !.width = Some(1920),
               !.height = Some(1080),
               !.r_frame_rate = Some(<<NumberText(30), NumberText(1)>>),
               !.bit_rate = Some(NumberText(2000000))],
           [StreamInfo("audio") EXCEPT
               !.codec_name = Some("aac"), !.sample_rate = Some(NumberText(44100)),
               !.channels = Some(2), !.bit_rate = Some(NumberText(128000))] >>)]
\* a file the probe knows little about: no format, texts that do not parse
ProbePoor ==
    [ok |-> TRUE,
     info |-> [format |-> None,
               streams |-> << [StreamInfo("video") EXCEPT
                                  !.width = Some(1920),
                                  !.r_frame_rate = Some(<<NumberText(30), NumberText(0)>>),
                                  !.bit_rate = Some(GarbageText)] >>]]
ProbeAnswers == {ProbeFailure, ProbeComplete, ProbePoor}

InitFix ==
    /\ project = NewProject
    /\ session = DefaultSession
    /\ seg = NewSegment("seg1", "Video", "mat1", TimeRange(0, 1), TimeRange(0, 1))
    /\ call = [op |-> "new"]

FixAddMaterial ==
    /\ Len(session.materials) < MaxMaterials
    /\ \E m \in FixMaterialPool :
          /\ session' = add_material(session, m)
          /\ call' = [op |-> "add_material", ret |-> m.id]
    /\ UNCHANGED <<seg, project>>

FixSession ==
    \E answers \in [1..Len(session.materials) -> ProbeAnswers] :
        /\ session' = [session EXCEPT !.materials = Fix(session, answers).materials]
        /\ call' = [op |-> "fix", pre |-> session, answers |-> answers,
                    ret |-> [ok |-> Fix(session, answers).ok],
                    probes |-> Fix(session, answers).probes]
        /\ UNCHANGED <<seg, project>>

NextFix == FixAddMaterial \/ FixSession

SpecFix == InitFix /\ [][NextFix]_vars

(***************************************************************************)
(* A project on disk (frontend/src-tauri): the materials section of its    *)
(* protocol.json and the files in its materials directory.  A material     *)
(* entry is [id, src]; src is the file's name inside the materials         *)
(* directory.  issued counts the ids handed out, standing for Uuid::new_v4 *)
(* that never repeats.                                                     *)
(***************************************************************************)
MaxImports == 3

Sections == <<"videos", "audios", "images">>

\* MaterialType::from_extension followed by as_str
SectionOfExtension(ext) ==
    CASE ext \in {"mp4", "avi", "mov", "mkv", "flv", "wmv", "webm"} -> Some("videos")
      [] ext \in {"mp3", "wav", "aac", "flac", "wma", "m4a", "ogg"} -> Some("audios")
      [] ext \in {"jpg", "jpeg", "png", "gif", "bmp", "webp", "svg"} -> Some("images")
      [] OTHER -> None

\* the source files a user picks: two of them carry the same file name
SourceFiles ==
    { [dir |-> "home", file_name |-> "a.mp4", ext |-> "mp4"],
      [dir |-> "usb", file_name |-> "a.mp4", ext |-> "mp4"],
      [dir |-> "home", file_name |-> "b.wav", ext |-> "wav"],
      [dir |-> "home", file_name |-> "c.png", ext |-> "png"],
      [dir |-> "home", file_name |-> "d.txt", ext |-> "txt"] }

add_material_to_protocol(p, material_src, section) ==
    [p EXCEPT !.materials[section] =
                  Append(@, [id |-> p.issued + 1, src |-> material_src]),
              !.issued = p.issued + 1]

import_material_file(p, source) ==
    IF SectionOfExtension(source.ext) = None
    THEN [ok |-> FALSE, id |-> 0, project |-> p]
    ELSE [ok |-> TRUE, id |-> p.issued + 1,
          project |-> add_material_to_protocol(
                          [p EXCEPT !.files = @ \cup {source.file_name}],
                          source.file_name,
                          Unwrap(SectionOfExtension(source.ext)))]

PositionOfId(materials, material_id) ==
    IF \E k \in 1..Len(materials) : materials[k].id = material_id
    THEN Some(CHOOSE k \in 1..Len(materials) :
                 /\ materials[k].id = material_id
                 /\ \A j \in 1..(k - 1) : materials[j].id # material_id)
    ELSE None

RemoveAt(seq, pos) == SubSeq(seq, 1, pos - 1) \o SubSeq(seq, pos + 1, Len(seq))

\* the first section, in the order videos, audios, images, that holds the id
RECURSIVE SectionHolding(_, _, _)
SectionHolding(materials, material_id, k) ==
    IF k > Len(Sections) THEN None
    ELSE IF IsSome(PositionOfId(materials[Sections[k]], material_id))
         THEN Some(Sections[k])
         ELSE SectionHolding(materials, material_id, k + 1)

\* the src of every entry of the materials section
ProtocolSrcs(materials) ==
    UNION {{materials[sec][k].src : k \in 1..Len(materials[sec])} :
             sec \in {Sections[i] : i \in 1..Len(Sections)}}

\* a removal that deletes the file of the entry it removed
remove_material_own_file(p, material_id) ==
    LET holding == SectionHolding(p.materials, material_id, 1)
    IN IF holding = None
       THEN [ok |-> FALSE, project |-> p]
       ELSE LET sec == Unwrap(holding)
                pos == Unwrap(PositionOfId(p.materials[sec], material_id))
            IN [ok |-> TRUE,
                project |-> [p EXCEPT !.materials[sec] = RemoveAt(@, pos),
                                      !.files = @ \ {p.materials[sec][pos].src}]]

\* the entry is removed and the protocol saved; then the file of every entry
\* of the saved protocol that lies in the materials directory is deleted
remove_material_from_protocol(p, material_id) ==
    LET holding == SectionHolding(p.materials, material_id, 1)
    IN IF holding = None
       THEN [ok |-> FALSE, project |-> p]
       ELSE LET sec == Unwrap(holding)
                pos == Unwrap(PositionOfId(p.materials[sec], material_id))
                saved == [p.materials EXCEPT ![sec] = RemoveAt(@, pos)]
            IN [ok |-> TRUE,
                project |-> [p EXCEPT !.materials = saved,
                                      !.files = @ \ ProtocolSrcs(saved)]]

\* the delete_material command
delete_material(p, material_id) == remove_material_from_protocol(p, material_id)

InitProject ==
    /\ project = NewProject
    /\ session = DefaultSession
    /\ seg = NewSegment("seg1", "Video", "mat1", TimeRange(0, 1), TimeRange(0, 1))
    /\ call = [op |-> "create_project"]

ImportMaterial ==
    /\ project.issued < MaxImports
    /\ \E source \in SourceFiles :
        /\ project' = import_material_file(project, source).project
        /\ call' = [op |-> "import_material", pre |-> project, source |-> source,
                    ret |-> [ok |-> import_material_file(project, source).ok,
                             id |-> import_material_file(project, source).id]]
    /\ UNCHANGED <<session, seg>>

DeleteMaterial ==
    /\ \E material_id \in 1..MaxImports :
        /\ project' = delete_material(project, material_id).project
        /\ call' = [op |-> "delete_material", pre |-> project,
                    material_id |-> material_id,
                    ret |-> [ok |-> delete_material(project, material_id).ok]]
    /\ UNCHANGED <<session, seg>>

NextProject == ImportMaterial \/ DeleteMaterial

SpecProject == InitProject /\ [][NextProject]_vars

(***************************************************************************)
(* A session built by a caller that chooses every id itself                *)
(* (EditSession::new, add_material, add_track, to_protocol and             *)
(* from_protocol in cut/mod.rs).                                           *)
(***************************************************************************)
IdPoolTracks == {NewTrack(id, ty) : id \in {"t1", "t2"}, ty \in {"Video", "Audio"}}

InitIds ==
    /\ project = NewProject
    /\ session = DefaultSession
    /\ seg = NewSegment("seg1", "Video", "mat1", TimeRange(0, 1), TimeRange(0, 1))
    /\ call = [op |-> "new"]

IdsAddMaterial ==
    /\ Len(session.materials) < MaxMaterials
    /\ \E m \in MaterialPool :
        /\ session' = add_material(session, m)
        /\ call' = [op |-> "add_material", pre |-> session, ret |-> m.id]
    /\ UNCHANGED <<seg, project>>

IdsAddTrack ==
    /\ Len(session.tracks) < MaxTracks
    /\ \E track \in IdPoolTracks :
        /\ session' = add_track(session, track)
        /\ call' = [op |-> "add_track", pre |-> session, ret |-> track.id]
    /\ UNCHANGED <<seg, project>>

\* EditSession::from_protocol of the document that to_protocol wrote
IdsFromProtocol ==
    /\ session' = Unwrap(to_session(from_session(session)).session)
    /\ call' = [op |-> "from_protocol", pre |-> session,
                ret |-> to_session(from_session(session)).ok]
    /\ UNCHANGED <<seg, project>>

NextIds == IdsAddMaterial \/ IdsAddTrack \/ IdsFromProtocol

SpecIds == InitIds /\ [][NextIds]_vars

(***************************************************************************)
(* Segments near the end of the u32 range (segment.rs).  A start is kept   *)
(* at its full width of 32 bits as the pair [hi, lo] of its two 16-bit     *)
(* halves; durations, trim amounts and offsets stay small numbers.  An     *)
(* addition that leaves the range panics in a build with overflow checks   *)
(* and wraps in a build without them.                                      *)
(***************************************************************************)
HalfWord == 65536

U32(hi, lo) == [hi |-> hi, lo |-> lo]

\* the small number n as a u32
U32Of(n) == U32(0, n)

\* u32::MAX - k
NearMax(k) == U32(HalfWord - 1, HalfWord - 1 - k)

\* a + b on u32: whether the sum leaves the range, and the wrapped sum
AddU32(a, b) ==
    LET lo == a.lo + b.lo
        hi == a.hi + b.hi + (lo \div HalfWord)
    IN [overflow |-> hi >= HalfWord, value |-> U32(hi % HalfWord, lo % HalfWord)]

LessU32(a, b) == a.hi < b.hi \/ (a.hi = b.hi /\ a.lo < b.lo)

\* a - b for a >= b not more than a small number apart
DistanceU32(a, b) == (a.hi - b.hi) * HalfWord + (a.lo - b.lo)

WideDurations == 1..(MaxStart + 1)
WideAmounts == 0..(MaxStart + 1)
WideStarts == {U32Of(0)} \cup {NearMax(k) : k \in 0..(MaxStart + 1)}
WideTimes == {AddU32(start, U32Of(k)).value : start \in WideStarts, k \in WideAmounts}
Builds == {"debug", "release"}

WideSegment(target_start, target_duration, source_start, source_duration) ==
    [target_timerange |-> [start |-> target_start, duration |-> target_duration],
     source_timerange |-> [start |-> source_start, duration |-> source_duration]]

\* the segment with both windows moved to start 0: what the operations compute
\* on it is what they add to the two starts and what they make of the durations
Rebased(w) ==
    NewSegment("seg1", "Video", "mat1",
               TimeRange(0, w.target_timerange.duration),
               TimeRange(0, w.source_timerange.duration))

\* TimeRange::end
wide_end(range) == AddU32(range.start, U32Of(range.duration))

\* Segment::contains_time: the end is computed only if time >= start
wide_contains_time(w, time) ==
    IF LessU32(time, w.target_timerange.start)
    THEN [overflow |-> FALSE, ret |-> FALSE]
    ELSE [overflow |-> wide_end(w.target_timerange).overflow,
          ret |-> LessU32(time, wide_end(w.target_timerange).value)]

\* Segment::trim_start: the two starts are advanced, the durations shrunk
wide_trim_start(w, trim_amount) ==
    LET r == trim_start(Rebased(w), trim_amount)
        target == AddU32(w.target_timerange.start, U32Of(r.target_timerange.start))
        source == AddU32(w.source_timerange.start, U32Of(r.source_timerange.start))
    IN [overflow |-> target.overflow \/ source.overflow,
        seg |-> WideSegment(target.value, r.target_timerange.duration,
                            source.value, r.source_timerange.duration)]

\* Segment::trim_end: only the durations are shrunk
wide_trim_end(w, trim_amount) ==
    LET r == trim_end(Rebased(w), trim_amount)
    IN [overflow |-> FALSE,
        seg |-> WideSegment(w.target_timerange.start, r.target_timerange.duration,
                            w.source_timerange.start, r.source_timerange.duration)]

\* Segment::split_at: contains_time, then the second part's source start
wide_split_at(w, time) ==
    LET inside == wide_contains_time(w, time)
    IN IF inside.overflow \/ ~inside.ret
       THEN [overflow |-> inside.overflow, ok |-> FALSE]
       ELSE LET r == split_at(Rebased(w), DistanceU32(time, w.target_timerange.start))
                source == AddU32(w.source_timerange.start,
                                 U32Of(r.second.source_timerange.start))
            IN [overflow |-> source.overflow, ok |-> TRUE,
                first |-> WideSegment(w.target_timerange.start,
                                      r.first.target_timerange.duration,
                                      w.source_timerange.start,
                                      r.first.source_timerange.duration),
                second |-> WideSegment(time, r.second.target_timerange.duration,
                                       source.value,
                                       r.second.source_timerange.duration)]

\* the call ended in a panic: an overflow in a build that checks for it
Panicked == call.op # "new" /\ call.overflow /\ call.build = "debug"

InitWide ==
    /\ project = NewProject
    /\ session = DefaultSession
    /\ \E ts \in WideStarts, ss \in WideStarts, td \in WideDurations, sd \in WideDurations :
          seg = WideSegment(ts, td, ss, sd)
    /\ call = [op |-> "new"]

WideEnd ==
    /\ ~Panicked
    /\ \E build \in Builds :
          call' = [op |-> "end", build |-> build,
                   overflow |-> wide_end(seg.target_timerange).overflow]
    /\ UNCHANGED <<session, seg, project>>

WideContainsTime ==
    /\ ~Panicked
    /\ \E build \in Builds, time \in WideTimes :
          call' = [op |-> "contains_time", build |-> build, time |-> time,
                   overflow |-> wide_contains_time(seg, time).overflow]
    /\ UNCHANGED <<session, seg, project>>

WideTrimStart ==
    /\ ~Panicked
    /\ \E build \in Builds, trim_amount \in WideAmounts :
          /\ call' = [op |-> "trim_start", build |-> build, pre |-> seg,
                      trim_amount |-> trim_amount,
                      overflow |-> wide_trim_start(seg, trim_amount).overflow]
          /\ seg' = IF wide_trim_start(seg, trim_amount).overflow /\ build = "debug"
                    THEN seg
                    ELSE wide_trim_start(seg, trim_amount).seg
    /\ UNCHANGED <<session, project>>

WideTrimEnd ==
    /\ ~Panicked
    /\ \E build \in Builds, trim_amount \in WideAmounts :
          /\ call' = [op |-> "trim_end", build |-> build, pre |-> seg,
                      trim_amount |-> trim_amount,
                      overflow |-> wide_trim_end(seg, trim_amount).overflow]
          /\ seg' = wide_trim_end(seg, trim_amount).seg
    /\ UNCHANGED <<session, project>>

WideSplitAt ==
    /\ ~Panicked
    /\ \E build \in Builds, time \in WideTimes :
          call' = [op |-> "split_at", build |-> build, time |-> time,
                   overflow |-> wide_split_at(seg, time).overflow,
                   ok |-> wide_split_at(seg, time).ok]
    /\ UNCHANGED <<session, seg, project>>

NextWide == WideEnd \/ WideContainsTime \/ WideTrimStart \/ WideTrimEnd \/ WideSplitAt

SpecWide == InitWide /\ [][NextWide]_vars

(***************************************************************************)
(* Claims about the Segment algebra, checked under SpecSeg.                *)
(***************************************************************************)
Abs(x) == IF x < 0 THEN -x ELSE x

IsSplit == call.op = "split_at"
IsTrim == call.op \in {"trim_start", "trim_end"}

PositiveDurations(s) ==
    s.target_timerange.duration > 0 /\ s.source_timerange.duration > 0

\* C6: a successful split_at(T0+k) with 0 < k < D returns target windows
\* [T0, T0+k) and [T0+k, T0+D), and source windows that are contiguous, cover
\* the original source window and meet at source.start + k * (pre-split speed),
\* truncated to whole milliseconds.
C6_SplitPartitions ==
    (IsSplit /\ call.ret.ok /\ call.arg > call.pre.target_timerange.start) =>
        LET T0 == call.pre.target_timerange.start
            D == call.pre.target_timerange.duration
            S0 == call.pre.source_timerange.start
            SD == call.pre.source_timerange.duration
            k == call.arg - T0
            cut == (k * SD) \div D
            a == call.ret.first
            b == call.ret.second
        IN /\ a.target_timerange = [start |-> T0, duration |-> k]
           /\ b.target_timerange = [start |-> T0 + k, duration |-> D - k]
           /\ a.source_timerange.start = S0
           /\ a.source_timerange.start + a.source_timerange.duration = S0 + cut
           /\ b.source_timerange.start = S0 + cut
           /\ b.source_timerange.start + b.source_timerange.duration = S0 + SD

C6_Witness ==
    /\ IsSplit /\ call.ret.ok
    /\ call.arg > call.pre.target_timerange.start
    /\ needs_speed_adjustment(call.pre)
    /\ call.ret.first.source_timerange.duration > 0
    /\ call.ret.second.source_timerange.duration > 0

\* C7: split_at(time) succeeds exactly for target.start <= time <= end() - 1,
\* the segment's own start included, and fails with InvalidParams otherwise,
\* in particular at time = end().
C7_SplitLegality ==
    IsSplit =>
        LET T0 == call.pre.target_timerange.start
            D == call.pre.target_timerange.duration
        IN /\ call.ret.ok <=> (T0 <= call.arg /\ call.arg <= T0 + D - 1)
           /\ ~call.ret.ok => call.ret.err = "InvalidParams"

C7_Witness ==
    /\ IsSplit
    /\ call.arg = call.pre.target_timerange.start
    /\ call.pre.target_timerange.duration > 0
    /\ call.ret.ok

\* C8: a trim by a, 0 < a < D, of a segment with positive durations shrinks the
\* target window by a and leaves the playback speed as it was, up to 1 ms of
\* rounding of the source window: |sd' - D' * sd / D| <= 1.
C8_TrimKeepsSpeed ==
    (IsTrim /\ PositiveDurations(call.pre)
        /\ 0 < call.arg /\ call.arg < call.pre.target_timerange.duration) =>
        LET D == call.pre.target_timerange.duration
            SD == call.pre.source_timerange.duration
        IN /\ seg.target_timerange.duration = D - call.arg
           /\ Abs(seg.source_timerange.duration * D
                  - seg.target_timerange.duration * SD) <= D

\* C9: from a segment with positive durations no Segment operation yields a
\* target or source window of duration 0, in the segment itself or in either
\* segment a successful split_at returns.
C9_NeverDisappears ==
    /\ (call.op \in {"trim_start", "trim_end", "resize"}
            /\ PositiveDurations(call.pre))
        => (seg.target_timerange.duration # 0 /\ seg.source_timerange.duration # 0)
    /\ (IsSplit /\ PositiveDurations(call.pre) /\ call.ret.ok)
        => /\ call.ret.first.target_timerange.duration # 0
           /\ call.ret.first.source_timerange.duration # 0
           /\ call.ret.second.target_timerange.duration # 0
           /\ call.ret.second.source_timerange.duration # 0

\* C10 as stated: for all Segments, trim_start(0) and trim_end(0) change no field.
C10_TrimZeroNoOpAll ==
    (IsTrim /\ call.arg = 0) => seg = call.pre

\* C10, amended: for all Segments whose target and source durations are both
\* positive, trim_start(0) and trim_end(0) change no field.
C10_TrimZeroNoOp ==
    (IsTrim /\ call.arg = 0 /\ PositiveDurations(call.pre)) => seg = call.pre

C10_Witness ==
    /\ call.op = "trim_end" /\ call.arg = 0
    /\ call.pre.target_timerange.duration > 1
    /\ call.pre.source_timerange.duration > 1
    /\ IsSome(call.pre.scale)

(***************************************************************************)
(* Claims about the session, checked under Spec.                           *)
(***************************************************************************)
IsValidate == call.op = "validate"
IsLoad == call.op = "load_from_protocol"
\* an export that passed validation and compiled a command
IsCompiled == call.op = "export" /\ IsSome(call.ret.compiled)
Compiled == Unwrap(call.ret.compiled)

SeqToSet(seq) == {seq[i] : i \in 1..Len(seq)}

\* the same stage, the same materials with all their fields (in whatever
\* order), and the same tracks with all their fields and segments, in order
SameSession(a, b) ==
    /\ a.stage = b.stage
    /\ Len(a.materials) = Len(b.materials)
    /\ SeqToSet(a.materials) = SeqToSet(b.materials)
    /\ a.tracks = b.tracks

\* C1: loading the document saved from a valid session gives that session
\* back field for field: stage, materials, and every track with its id, type,
\* enabled, muted, volume, opacity, blend_mode and its segments in order.
C1_RoundTrip ==
    (IsLoad /\ call.doc = from_session(call.pre)
            /\ SessionValidate(call.pre).class = "ok")
        => /\ call.ret.ok
           /\ SameSession(Unwrap(call.ret.session), call.pre)

HasOwnError(track) == TrackOwnError(track) # "ok"
HasSegmentError(track) ==
    \E j \in 1..Len(track.segments) : SegmentValidate(track.segments[j]) # "ok"
HasDangling(s, track) ==
    \E j \in 1..Len(track.segments) :
        \A k \in 1..Len(s.materials) :
            s.materials[k].id # track.segments[j].material_id
HasStageError(s) == s.stage.width <= 0 \/ s.stage.height <= 0
HasMaterialError(s) ==
    \E k \in 1..Len(s.materials) : MaterialValidate(s.materials[k]) # "ok"
Faulty(s, t) ==
    \/ HasOwnError(s.tracks[t])
    \/ HasSegmentError(s.tracks[t])
    \/ HasDangling(s, s.tracks[t])

\* the earliest class of violation the session holds anywhere, in the order
\* stage, material, track, segment, reference
EarliestClass(s) ==
    IF HasStageError(s) THEN "stage"
    ELSE IF HasMaterialError(s) THEN "material"
    ELSE IF \E t \in 1..Len(s.tracks) : HasOwnError(s.tracks[t]) THEN "track"
    ELSE IF \E t \in 1..Len(s.tracks) : HasSegmentError(s.tracks[t]) THEN "segment"
    ELSE IF \E t \in 1..Len(s.tracks) : HasDangling(s, s.tracks[t]) THEN "reference"
    ELSE "ok"

\* the class validate reports when it goes track by track: the first faulty
\* track decides, by its own fields, then its segments, then its references
EarliestClassByTrack(s) ==
    IF HasStageError(s) THEN "stage"
    ELSE IF HasMaterialError(s) THEN "material"
    ELSE IF \A t \in 1..Len(s.tracks) : ~Faulty(s, t) THEN "ok"
    ELSE LET t == CHOOSE u \in 1..Len(s.tracks) :
                      Faulty(s, u) /\ \A w \in 1..(u - 1) : ~Faulty(s, w)
         IN IF HasOwnError(s.tracks[t]) THEN "track"
            ELSE IF HasSegmentError(s.tracks[t]) THEN "segment"
            ELSE "reference"

\* C2 as stated: validate returns the violation of the earliest class in the
\* order stage, materials, tracks' own fields, segments, references, whichever
\* track or segment holds it.
C2_ClassOrderAcrossTracks ==
    IsValidate => call.ret.class = EarliestClass(call.pre)

\* C2, amended: validate returns the first violation in the order stage, then
\* materials, then for each track in storage order its own fields, its
\* segments, its material references; the error names that first faulty track.
C2_ClassOrderByTrack ==
    IsValidate =>
        /\ call.ret.class = EarliestClassByTrack(call.pre)
        /\ call.ret.class \in {"track", "segment", "reference"} =>
              /\ Faulty(call.pre, call.ret.track)
              /\ \A w \in 1..(call.ret.track - 1) : ~Faulty(call.pre, w)

\* validate met a dangling reference on the first track and reported it although
\* the second track holds an out-of-range volume
C2_Witness ==
    /\ IsValidate
    /\ Len(call.pre.tracks) >= 2
    /\ HasDangling(call.pre, call.pre.tracks[1])
    /\ HasOwnError(call.pre.tracks[2])
    /\ call.ret.class = "reference"
    /\ call.ret.track = 1

OverlayAt(k) == Compiled.ffmpeg.filters[k].name = "overlay"
FilterCount == Len(Compiled.ffmpeg.filters)

\* the canvas an overlay is composited onto is the output of the overlay
\* emitted just before it, or the background if it is the first
OnRunningCanvas(k) ==
    LET canvas == Compiled.ffmpeg.filters[k].inputs[1]
        before == {j \in 1..(k - 1) : OverlayAt(j)}
    IN /\ canvas.kind = "filter"
       /\ canvas.index = IF before = {} THEN 1
                         ELSE CHOOSE j \in before : \A i \in before : i <= j

\* C3: for enabled video tracks A before B in session.tracks, every overlay of
\* a segment of A is composited onto the running canvas after every overlay of
\* a segment of B, so the earliest video track ends up on top.
C3_ZOrder ==
    IsCompiled =>
        /\ Compiled.ffmpeg.filters[1].name = "color"
        /\ \A k \in 1..FilterCount : OverlayAt(k) => OnRunningCanvas(k)
        /\ \A i, j \in 1..FilterCount :
              (/\ OverlayAt(i) /\ OverlayAt(j)
               /\ Compiled.ffmpeg.filters[i].origin[1]
                     < Compiled.ffmpeg.filters[j].origin[1])
                 => j < i

\* a command compiled from two enabled video tracks, with overlays of both
C3_Witness ==
    /\ IsCompiled
    /\ \E i, j \in 1..FilterCount :
          /\ OverlayAt(i) /\ OverlayAt(j)
          /\ Compiled.ffmpeg.filters[i].origin[1] = 1
          /\ Compiled.ffmpeg.filters[j].origin[1] = 2

FiltersNamed(name) == {k \in 1..FilterCount : Compiled.ffmpeg.filters[k].name = name}

\* C4: with no audio stream collected the graph holds exactly one anullsrc
\* sized to total_duration() and no amix; with one stream that stream is the
\* mix, unchanged, and there is no amix; with n >= 2 streams there is exactly
\* one amix and its inputs are exactly those n streams.
C4_MixArity ==
    IsCompiled =>
        LET n == Len(Compiled.audio_inputs)
            filters == Compiled.ffmpeg.filters
        IN /\ n = 0 =>
                /\ Cardinality(FiltersNamed("anullsrc")) = 1
                /\ FiltersNamed("amix") = {}
                /\ \A k \in FiltersNamed("anullsrc") :
                      /\ filters[k].params = <<total_duration(call.pre)>>
                      /\ Compiled.sound_bg = FilterRef(Compiled.ffmpeg, k)
           /\ n = 1 =>
                /\ FiltersNamed("amix") = {}
                /\ FiltersNamed("anullsrc") = {}
                /\ Compiled.sound_bg = Compiled.audio_inputs[1]
           /\ n >= 2 =>
                /\ Cardinality(FiltersNamed("amix")) = 1
                /\ FiltersNamed("anullsrc") = {}
                /\ \A k \in FiltersNamed("amix") :
                      /\ filters[k].inputs = Compiled.audio_inputs
                      /\ filters[k].params = <<n>>
                      /\ Compiled.sound_bg = FilterRef(Compiled.ffmpeg, k)

\* a command compiled with exactly one audio stream collected
C4_Witness == IsCompiled /\ Len(Compiled.audio_inputs) = 1

\* the material ids the segments of the session refer to
ReferencedMaterials(s) ==
    UNION {{s.tracks[t].segments[j].material_id : j \in 1..Len(s.tracks[t].segments)} :
              t \in 1..Len(s.tracks)}

\* C5: after compiling a valid session the number of bound inputs is the number
\* of distinct material ids its segments refer to, each bound exactly once.
C5_InputsDeduplicated ==
    IsCompiled =>
        /\ Len(Compiled.ffmpeg.inputs) = Cardinality(ReferencedMaterials(call.pre))
        /\ \A id \in ReferencedMaterials(call.pre) :
              Cardinality({k \in 1..Len(Compiled.material_inputs) :
                              Compiled.material_inputs[k].key = id}) = 1
        /\ \A k \in 1..Len(Compiled.material_inputs) :
              /\ Compiled.material_inputs[k].input = k
              /\ Compiled.ffmpeg.inputs[k].path =
                    Unwrap(get_material(call.pre, Compiled.material_inputs[k].key)).src

\* a command compiled from a session in which two segments share a material
C5_Witness ==
    /\ IsCompiled
    /\ \E t \in 1..Len(call.pre.tracks) :
          /\ Len(call.pre.tracks[t].segments) >= 2
          /\ call.pre.tracks[t].segments[1].material_id
                = call.pre.tracks[t].segments[2].material_id


(***************************************************************************)
(* Claims about one track, checked under SpecTrack.                        *)
(***************************************************************************)
\* half-open target windows that overlap: a.start < b.end and b.start < a.end
WindowsOverlap(a, b) ==
    /\ a.target_timerange.start < target_end_time(b)
    /\ b.target_timerange.start < target_end_time(a)

SomePairOverlaps(track) ==
    \E i, j \in 1..Len(track.segments) :
        i # j /\ WindowsOverlap(track.segments[i], track.segments[j])

\* C11: has_overlapping_segments returns true exactly when some pair of distinct
\* segments of the track has overlapping half-open target windows, in whatever
\* order the segments are stored; windows that only touch do not overlap.
C11_OverlapIsPairwise ==
    call.op = "has_overlapping_segments" =>
        call.ret = SomePairOverlaps(call.pre)


(***************************************************************************)
(* Claims about the material resolver, checked under SpecFix.              *)
(***************************************************************************)
IsFix == call.op = "fix"

\* the enrichable fields of a material of that type that hold an Option
OptionalFields(type) ==
    CASE type = "Video" -> {"duration", "fps", "codec", "bitrate"}
      [] type = "Audio" -> {"duration", "sample_rate", "channels", "codec", "bitrate"}
      [] type = "Image" -> {"format"}

HasDimension(m) == m.type \in {"Video", "Image"}

\* every enrichable field that was present in before has the same value in after
PresentFieldsKept(before, after) ==
    /\ \A f \in OptionalFields(before.type) : IsSome(before[f]) => after[f] = before[f]
    /\ HasDimension(before) =>
          /\ before.dimension.width # 0 => after.dimension.width = before.dimension.width
          /\ before.dimension.height # 0 =>
                after.dimension.height = before.dimension.height

\* C12: a successful resolution leaves every enrichable field that was present
\* before it (each of width and height, duration, fps, codec, bitrate,
\* sample_rate, channels, format) at its value, whatever the probe returned.
C12_NeverOverwrites ==
    (IsFix /\ call.ret.ok) =>
        \A k \in 1..Len(call.pre.materials) :
            PresentFieldsKept(call.pre.materials[k], session.materials[k])

FailedProbes == {k \in 1..Len(call.pre.materials) : ~call.answers[k].ok}
FirstFailedProbe == CHOOSE k \in FailedProbes : \A j \in FailedProbes : k <= j

\* C13: when a probe fails, fix returns the error at once: the materials before
\* the failing one were probed, in order, no later material is probed, and the
\* failing material and all later ones are exactly as before the call.
C13_FailFast ==
    (IsFix /\ FailedProbes # {}) =>
        /\ ~call.ret.ok
        /\ call.probes = [k \in 1..FirstFailedProbe |-> k]
        /\ Len(session.materials) = Len(call.pre.materials)
        /\ \A k \in FirstFailedProbe..Len(call.pre.materials) :
              session.materials[k] = call.pre.materials[k]

HasAbsentField(m) ==
    \/ \E f \in OptionalFields(m.type) : m[f] = None
    \/ HasDimension(m) /\ (m.dimension.width = 0 \/ m.dimension.height = 0)

\* the first probe failed although the second material had fields to fill and
\* a probe that would have filled them
C13_Witness ==
    /\ IsFix
    /\ Len(call.pre.materials) >= 2
    /\ FailedProbes = {1}
    /\ HasAbsentField(call.pre.materials[2])
    /\ FixMaterial(call.pre.materials[2], call.answers[2].info) # call.pre.materials[2]
    /\ call.probes = <<1>>

\* C14: a successful resolution has probed, once each, exactly the materials
\* that had an absent enrichable field, and no material that had none.
C14_ProbesOnlyIncomplete ==
    (IsFix /\ call.ret.ok) =>
        call.probes = SelectSeq([k \in 1..Len(call.pre.materials) |-> k],
                                LAMBDA k : HasAbsentField(call.pre.materials[k]))

(***************************************************************************)
(* Export of a session that does not validate.                             *)
(***************************************************************************)
IsExport == call.op = "export"

\* C15: an export of a session that fails validation returns that validation
\* error, has bound no input and emitted no graph node (no command was
\* compiled), has not run the engine, and leaves the session as it was.
C15_ExportFailsFast ==
    (IsExport /\ SessionValidate(call.pre).class # "ok")
        => /\ ~call.ret.ok
           /\ call.ret.err = SessionValidate(call.pre)
           /\ call.ret.compiled = None
           /\ ~call.ret.ran
           /\ session = call.pre

\* an export refused for a session that has segments to bind and to chain
C15_Witness ==
    /\ IsExport
    /\ SessionValidate(call.pre).class # "ok"
    /\ \E t \in 1..Len(call.pre.tracks) :
          /\ call.pre.tracks[t].segments # <<>>
          /\ IsSome(get_material(call.pre, call.pre.tracks[t].segments[1].material_id))
    /\ ~call.ret.ok

(***************************************************************************)
(* The two conversions between a session and its protocol document.        *)
(***************************************************************************)
IsSave == call.op = "save_to_protocol"

\* the type tags the protocol's writer produces
RecognizedTags == {TypeToString(ty) :
                     ty \in {"Video", "Audio", "Image", "Text", "Subtitle"}}

HasUnrecognizedTag(doc) ==
    \E t \in 1..Len(doc.tracks) :
        \/ doc.tracks[t].track_type \notin RecognizedTags
        \/ \E j \in 1..Len(doc.tracks[t].segments) :
              doc.tracks[t].segments[j].segment_type \notin RecognizedTags

\* C16: saving a session always yields a document, with every material and
\* every track of the session in it; loading a document fails if and only if
\* one of its tracks or segments carries an unrecognized type tag, and a
\* failed load returns an error and no session and keeps the editor's session.
C16_ConversionFailures ==
    /\ IsSave =>
          /\ Len(call.ret.tracks) = Len(call.pre.tracks)
          /\ Len(call.ret.materials.videos) + Len(call.ret.materials.audios)
               + Len(call.ret.materials.images) = Len(call.pre.materials)
          /\ ~HasUnrecognizedTag(call.ret)
    /\ IsLoad =>
          /\ ~call.ret.ok <=> HasUnrecognizedTag(call.doc)
          /\ call.ret.ok => IsSome(call.ret.session) /\ session = Unwrap(call.ret.session)
          /\ ~call.ret.ok => /\ call.ret.session = None
                             /\ call.ret.err = "InvalidParams"
                             /\ session = call.pre

\* a load refused for the tag of a segment on a track whose own tag is known
C16_Witness ==
    /\ IsLoad
    /\ ~call.ret.ok
    /\ \A t \in 1..Len(call.doc.tracks) : call.doc.tracks[t].track_type \in RecognizedTags
    /\ call.pre.materials # <<>>

(***************************************************************************)
(* Identity of the materials and tracks of a session, under SpecIds.       *)
(***************************************************************************)
IdsDistinct(seq) ==
    \A i, j \in 1..Len(seq) : seq[i].id = seq[j].id => i = j

\* C17: after any sequence of add_material, add_track and from_protocol, no
\* two materials of the session share an id and no two tracks share an id.
C17_UniqueIds == IdsDistinct(session.materials) /\ IdsDistinct(session.tracks)

(***************************************************************************)
(* Two compilations of one session with the same options.                  *)
(***************************************************************************)
\* what the engine is handed: the inputs, the filter graph with its labels and
\* references, and the output with its mapping
Graph(compiled) ==
    [inputs |-> compiled.ffmpeg.inputs,
     filters |-> [k \in 1..Len(compiled.ffmpeg.filters) |->
                    [name |-> compiled.ffmpeg.filters[k].name,
                     label |-> compiled.ffmpeg.filters[k].label,
                     inputs |-> compiled.ffmpeg.filters[k].inputs]],
     outputs |-> compiled.ffmpeg.outputs]

\* C18: a compilation of a session with given options yields the same graph
\* (node names and labels, input references, output mapping) as every other
\* compilation of that session with those options.
C18_Deterministic ==
    IsCompiled =>
        \A draw \in LabelDraws :
            Graph(Compile(call.pre, call.options, draw)) = Graph(Compiled)

(***************************************************************************)
(* Deleting a material of a project, under SpecProject.                    *)
(***************************************************************************)
IsDelete == call.op = "delete_material" /\ call.ret.ok

EntriesOf(p) ==
    UNION {{p.materials[sec][k] : k \in 1..Len(p.materials[sec])} :
             sec \in {Sections[i] : i \in 1..Len(Sections)}}

DeletedEntry == CHOOSE e \in EntriesOf(call.pre) : e.id = call.material_id

\* C19: a successful delete_material(project, id) removes exactly the entry
\* with that id from the protocol and deletes that entry's file; the entry
\* and the file of every other material are as they were before.
C19_DeleteFrame ==
    IsDelete =>
        /\ EntriesOf(project) = EntriesOf(call.pre) \ {DeletedEntry}
        /\ DeletedEntry.src \notin project.files
        /\ \A e \in EntriesOf(project) :
              e.src # DeletedEntry.src =>
                  (e.src \in project.files <=> e.src \in call.pre.files)

(***************************************************************************)
(* The source window each segment's chain consumes.                        *)
(***************************************************************************)
\* the segments a compilation builds a chain for, as <<track, segment>>
ChainedSegments(s) ==
    {at \in {<<t, j>> : t \in 1..Len(s.tracks), j \in 1..MaxSegments} :
        /\ at[2] <= Len(s.tracks[at[1]].segments)
        /\ s.tracks[at[1]].enabled
        /\ \/ s.tracks[at[1]].track_type = "Video"
           \/ s.tracks[at[1]].track_type = "Audio" /\ ~s.tracks[at[1]].muted
        /\ IsBound(Compiled, SegmentAt(s, at).material_id)}

\* the trimming nodes emitted in the chain of the segment at <<track, segment>>
TrimNodes(at) ==
    {k \in 1..FilterCount :
        /\ Compiled.ffmpeg.filters[k].origin = at
        /\ Compiled.ffmpeg.filters[k].name \in {"trim", "atrim"}}

InputOf(at) ==
    Compiled.ffmpeg.inputs[BoundInput(Compiled, SegmentAt(call.pre, at).material_id)]

TrimmedAtInput(at) == IsSome(InputOf(at).start_time) \/ IsSome(InputOf(at).duration)

\* C20: every segment that is chained consumes the material restricted to its
\* own source_timerange, and is trimmed exactly once: either the input bound
\* for it carries that window and its chain holds no trimming node, or the
\* input is untrimmed and the chain holds one trimming node with that window.
C20_OwnWindowTrimmedOnce ==
    IsCompiled =>
        \A at \in ChainedSegments(call.pre) :
            LET window == SegmentAt(call.pre, at).source_timerange
            IN \/ /\ TrimmedAtInput(at)
                  /\ InputOf(at).start_time = Some(window.start)
                  /\ InputOf(at).duration = Some(window.duration)
                  /\ TrimNodes(at) = {}
               \/ /\ ~TrimmedAtInput(at)
                  /\ Cardinality(TrimNodes(at)) = 1
                  /\ \A k \in TrimNodes(at) :
                        Compiled.ffmpeg.filters[k].params
                            = <<window.start, window.duration>>

(***************************************************************************)
(* The chain of nodes emitted for one video segment.                       *)
(***************************************************************************)
\* the segments of the enabled video tracks, as <<track, segment>>
EnabledVideoSegments(s) ==
    {at \in {<<t, j>> : t \in 1..Len(s.tracks), j \in 1..MaxSegments} :
        /\ at[2] <= Len(s.tracks[at[1]].segments)
        /\ s.tracks[at[1]].track_type = "Video"
        /\ s.tracks[at[1]].enabled}

\* the positions, in emission order, of the nodes emitted for the segment
NodesOf(at) ==
    SelectSeq([k \in 1..FilterCount |-> k],
              LAMBDA k : Compiled.ffmpeg.filters[k].origin = at)

\* the steps the chain of a video segment is to consist of, in their order
VideoSteps(segment) ==
    (IF IsSome(segment.scale) THEN <<[name |-> "scale", expr |-> ""]>> ELSE <<>>)
    \o (IF needs_speed_adjustment(segment)
        THEN <<[name |-> "setpts", expr |-> "1/speed*PTS"]>> ELSE <<>>)
    \o <<[name |-> "setpts", expr |-> "PTS+start/TB"],
         [name |-> "overlay", expr |-> "enable=between(t,from,to)"]>>

NodeRef(k) == [kind |-> "filter", index |-> k, stream |-> "",
               label |-> Compiled.ffmpeg.filters[k].label]

\* C21: the nodes emitted for a segment of an enabled video track are, in
\* this order, scale (exactly when segment.scale is set), speed adjustment
\* (exactly when needs_speed_adjustment()), one timeline placement and one
\* overlay; the first node reads the video stream of the segment's input and
\* each later node reads the output of the node before it.
C21_VideoChainOrder ==
    IsCompiled =>
        \A at \in EnabledVideoSegments(call.pre) :
            LET segment == SegmentAt(call.pre, at)
                nodes == NodesOf(at)
                steps == VideoSteps(segment)
                node(i) == Compiled.ffmpeg.filters[nodes[i]]
            IN /\ Len(nodes) = Len(steps)
               /\ \A i \in 1..Len(nodes) :
                     /\ node(i).name = steps[i].name
                     /\ node(i).expr = steps[i].expr
                     /\ node(i).inputs[Len(node(i).inputs)] =
                           IF i = 1
                           THEN InputRef(BoundInput(Compiled, segment.material_id), "v")
                           ELSE NodeRef(nodes[i - 1])

\* a compiled chain of four nodes: a segment that is scaled and sped up
C21_Witness ==
    /\ IsCompiled
    /\ \E at \in EnabledVideoSegments(call.pre) :
          /\ IsSome(SegmentAt(call.pre, at).scale)
          /\ needs_speed_adjustment(SegmentAt(call.pre, at))
          /\ Len(NodesOf(at)) = 4

(***************************************************************************)
(* The instants at which an overlay is enabled.                            *)
(***************************************************************************)
Instants == 0..(MaxStart + MaxDuration + MaxDuration)

Overlays == {k \in 1..FilterCount : OverlayAt(k)}

\* the overlay at position k is enabled at instant t: its enable expression
\* is between(t, params[3], params[4])
OverlayEnabled(k, t) ==
    Between(t, Compiled.ffmpeg.filters[k].params[3],
               Compiled.ffmpeg.filters[k].params[4])

TargetOf(k) == SegmentAt(call.pre, Compiled.ffmpeg.filters[k].origin).target_timerange

InTarget(k, t) ==
    TargetOf(k).start <= t /\ t < TargetOf(k).start + TargetOf(k).duration

\* C22: the overlay of a segment is enabled at exactly the instants t with
\* target_start <= t < target_start + target_duration, so the overlays of two
\* segments whose target windows share no instant are never enabled together.
C22_NoBleed ==
    IsCompiled =>
        /\ \A k \in Overlays : \A t \in Instants : OverlayEnabled(k, t) <=> InTarget(k, t)
        /\ \A k, m \in Overlays :
              (k # m /\ \A t \in Instants : ~(InTarget(k, t) /\ InTarget(m, t)))
                  => \A t \in Instants : ~(OverlayEnabled(k, t) /\ OverlayEnabled(m, t))

(***************************************************************************)
(* The volume of an audio track in the chains of its segments.             *)
(***************************************************************************)
\* the segments of the enabled, unmuted audio tracks, as <<track, segment>>
MixedAudioSegments(s) ==
    {at \in {<<t, j>> : t \in 1..Len(s.tracks), j \in 1..MaxSegments} :
        /\ at[2] <= Len(s.tracks[at[1]].segments)
        /\ s.tracks[at[1]].track_type = "Audio"
        /\ s.tracks[at[1]].enabled
        /\ ~s.tracks[at[1]].muted}

VolumeNodes(at) ==
    {k \in 1..FilterCount : /\ Compiled.ffmpeg.filters[k].origin = at
                            /\ Compiled.ffmpeg.filters[k].name = "volume"}

NodesNamed(at, names) ==
    {k \in 1..FilterCount : /\ Compiled.ffmpeg.filters[k].origin = at
                            /\ Compiled.ffmpeg.filters[k].name \in names}

\* C23: the chain of a segment on an enabled, unmuted audio track whose
\* volume is not 1.0 holds one volume node that scales by the track's volume,
\* after the trim step and before the tempo step; with a track volume of 1.0
\* the chain holds no volume node.
C23_VolumeStep ==
    IsCompiled =>
        \A at \in MixedAudioSegments(call.pre) :
            IF call.pre.tracks[at[1]].volume # 10
            THEN /\ Cardinality(VolumeNodes(at)) = 1
                 /\ \A k \in VolumeNodes(at) :
                       /\ Compiled.ffmpeg.filters[k].params
                            = <<call.pre.tracks[at[1]].volume>>
                       /\ \A j \in NodesNamed(at, {"atrim", "asetpts"}) : j < k
                       /\ \A j \in NodesNamed(at, {"atempo"}) : k < j
            ELSE VolumeNodes(at) = {}

(***************************************************************************)
(* The output of an export.                                                *)
(***************************************************************************)
TheOutput == Compiled.ffmpeg.outputs[1]

\* C24: every key/value pair of ExportOptions.custom_options is among the
\* options of the output that export configures, unchanged, for a Video and
\* for an Audio export.
C24_CustomOptionsAppended ==
    IsCompiled =>
        \A pair \in call.options.custom_options : pair \in SeqToSet(TheOutput.options)

(***************************************************************************)
(* Tracks that are disabled or muted.                                      *)
(***************************************************************************)
\* the segments of the tracks the compilation is to skip: the disabled video
\* tracks and the disabled or muted audio tracks
SkippedSegments(s) ==
    {at \in {<<t, j>> : t \in 1..Len(s.tracks), j \in 1..MaxSegments} :
        /\ at[2] <= Len(s.tracks[at[1]].segments)
        /\ \/ s.tracks[at[1]].track_type = "Video" /\ ~s.tracks[at[1]].enabled
           \/ /\ s.tracks[at[1]].track_type = "Audio"
              /\ ~s.tracks[at[1]].enabled \/ s.tracks[at[1]].muted}

\* C25: no node of the graph (scale, setpts, overlay or any other) is emitted
\* for a segment of a disabled video track or of a disabled or muted audio
\* track, and the streams that enter the mix are those of the segments of the
\* enabled, unmuted audio tracks and no more.
C25_SkippedTracksContributeNothing ==
    IsCompiled =>
        /\ \A k \in 1..FilterCount :
              Compiled.ffmpeg.filters[k].origin \notin SkippedSegments(call.pre)
        /\ \A i \in 1..Len(Compiled.audio_inputs) :
              Compiled.audio_inputs[i].kind = "filter" =>
                  Compiled.ffmpeg.filters[Compiled.audio_inputs[i].index].origin
                      \in MixedAudioSegments(call.pre)
        /\ Len(Compiled.audio_inputs) = Cardinality(MixedAudioSegments(call.pre))

\* a compilation of a session with a skipped track beside a track that is
\* compiled
C25_Witness ==
    /\ IsCompiled
    /\ SkippedSegments(call.pre) # {}
    /\ FilterCount > 2

\* the node last emitted among those at the positions ks
LastOf(ks) == CHOOSE k \in ks : \A j \in ks : j <= k

\* the final video canvas: the output of the last overlay emitted, or of the
\* background node when no overlay was emitted
FinalCanvas ==
    IF Overlays # {} THEN NodeRef(LastOf(Overlays))
    ELSE NodeRef(LastOf(FiltersNamed("color")))

\* the final audio mix: the amix node, or the silence node, or the one
\* collected stream
FinalMix ==
    IF FiltersNamed("amix") # {} THEN NodeRef(LastOf(FiltersNamed("amix")))
    ELSE IF FiltersNamed("anullsrc") # {} THEN NodeRef(LastOf(FiltersNamed("anullsrc")))
    ELSE Compiled.audio_inputs[1]

\* C26: a Video export maps exactly two streams, the final video canvas and
\* then the final audio mix; an Audio export maps exactly one stream, the
\* final audio mix.
C26_OutputMapping ==
    IsCompiled =>
        /\ Len(Compiled.ffmpeg.outputs) = 1
        /\ IF call.options.export_type = "Video"
           THEN TheOutput.mappings = <<FinalCanvas, FinalMix>>
           ELSE TheOutput.mappings = <<FinalMix>>

\* a Video export whose canvas is an overlay and whose mix is an amix node
C26_Witness ==
    /\ IsCompiled
    /\ call.options.export_type = "Video"
    /\ Overlays # {}
    /\ FiltersNamed("amix") # {}

(***************************************************************************)
(* Every segment of a validated export is compiled.                        *)
(***************************************************************************)
AllSegments(s) ==
    {at \in {<<t, j>> : t \in 1..Len(s.tracks), j \in 1..MaxSegments} :
        at[2] <= Len(s.tracks[at[1]].segments)}

\* the stream a segment of an audio track hands to the mix: the output of the
\* last node of its chain, or the audio stream of its input if the chain is
\* empty
StreamOf(at) ==
    IF NodesOf(at) # <<>> THEN NodeRef(NodesOf(at)[Len(NodesOf(at))])
    ELSE InputRef(BoundInput(Compiled, SegmentAt(call.pre, at).material_id), "a")

\* C27: in an export whose validation succeeded every segment has a bound
\* input, every segment of an enabled video track yields exactly one overlay
\* node and every segment of an enabled, unmuted audio track yields exactly
\* one stream of the mix: no segment is skipped.
C27_NoSegmentDropped ==
    IsCompiled =>
        /\ \A at \in AllSegments(call.pre) :
              IsBound(Compiled, SegmentAt(call.pre, at).material_id)
        /\ \A at \in EnabledVideoSegments(call.pre) :
              Cardinality({k \in Overlays : Compiled.ffmpeg.filters[k].origin = at}) = 1
        /\ Len(Compiled.audio_inputs) = Cardinality(MixedAudioSegments(call.pre))
        /\ \A at \in MixedAudioSegments(call.pre) :
              Cardinality({i \in 1..Len(Compiled.audio_inputs) :
                              Compiled.audio_inputs[i] = StreamOf(at)})
                  = Cardinality({other \in MixedAudioSegments(call.pre) :
                                    IsBound(Compiled, SegmentAt(call.pre, other).material_id)
                                    /\ StreamOf(other) = StreamOf(at)})

\* a compiled session with a video segment and an audio segment on different
\* materials
C27_Witness ==
    /\ IsCompiled
    /\ EnabledVideoSegments(call.pre) # {}
    /\ MixedAudioSegments(call.pre) # {}

(***************************************************************************)
(* The u32 arithmetic of segments, under SpecWide.                         *)
(***************************************************************************)
\* C28: for a segment that passes validate() (both durations positive), no
\* computation of end() and no update of a start or a duration inside
\* trim_start, trim_end or split_at leaves the u32 range.
C28_NoOverflow ==
    (call.op # "new" /\ seg.target_timerange.duration > 0
                     /\ seg.source_timerange.duration > 0)
        => ~call.overflow

(***************************************************************************)
(* The validator of the protocol document and the validator of the session.*)
(***************************************************************************)
\* C29: a document that CutProtocol::validate accepts and whose type tags
\* are all recognized converts to a session that EditSession::validate
\* accepts.
C29_ValidatorsAgree ==
    (IsLoad /\ ProtocolValidate(call.doc) = "ok" /\ ~HasUnrecognizedTag(call.doc))
        => /\ call.ret.ok
           /\ SessionValidate(Unwrap(call.ret.session)).class = "ok"

(***************************************************************************)
(* The labels of the nodes of one graph.                                   *)
(***************************************************************************)
\* every reference of the graph: the inputs of its nodes and the mappings of
\* its output
References ==
    UNION {SeqToSet(Compiled.ffmpeg.filters[k].inputs) : k \in 1..FilterCount}
    \cup SeqToSet(TheOutput.mappings)

\* the nodes, or the bound inputs, that a reference names
Producers(ref) ==
    IF ref.kind = "filter"
    THEN {k \in 1..FilterCount : Compiled.ffmpeg.filters[k].label = ref.label}
    ELSE {i \in 1..Len(Compiled.ffmpeg.inputs) : i = ref.index}

\* C30: in one compiled graph no two nodes carry the same output label, and
\* every reference names exactly one node or exactly one bound input.
C30_LabelsDistinct ==
    IsCompiled =>
        /\ \A k, m \in 1..FilterCount :
              Compiled.ffmpeg.filters[k].label = Compiled.ffmpeg.filters[m].label
                  => k = m
        /\ \A ref \in References : Cardinality(Producers(ref)) = 1

====
